---- MODULE Spec2Model ----
(***************************************************************************)
(* Model of src/src/lib/noble-secp256k1.ts (the secp256k1 ECDSA core).     *)
(*                                                                         *)
(* TLC integers are 32 bits wide, so the 256-bit curve cannot be           *)
(* instantiated.  Every definition below is the code of the library with   *)
(* the curve parameters replaced by those of the Koblitz curve             *)
(* y^2 = x^3 + 7 over F_211, whose group has prime order 199.  The         *)
(* relations the code relies on are those of secp256k1:                    *)
(*   a = 0, b = 7;  P = 3 (mod 4);  P = 1 (mod 3);  n prime;               *)
(*   n < P < 2^PRIME_SIZE < 2n;  no curve point has x = 0 or y = 0;        *)
(*   beta^3 = 1 (mod P), lambda^2 + lambda + 1 = 0 (mod n) and             *)
(*   lambda * (x, y) = (beta * x, y);  the lattice basis of                *)
(*   splitScalarEndo has a1 > 0 > b1, a2 = a1 - b1, b2 = a1.               *)
(* One byte stands for the 32 bytes of a scalar (two hex digits for the    *)
(* 64 of pad64), 4 bits for the 128 bits of a half-length scalar.          *)
(* A BigInt product is exact; where the code reduces once after several    *)
(* multiplications the model reduces after each (the value is the same).   *)
(***************************************************************************)
EXTENDS Integers, Sequences, FiniteSets, TLC

\* ------------------------------------------------------------------ CURVE
CURVE_b == 7
CURVE_P == 211
CURVE_n == 199
CURVE_Gx == 3
CURVE_Gy == 33
CURVE_beta == 196
PRIME_SIZE == 8
\* the literal 128 of precomputeWindow / wNAF: bits of a half-length scalar
HALF_SIZE == 4
\* the literal 64 of pad64: hex digits of a scalar
PAD_LEN == 2
P_DIV4_1 == (CURVE_P + 1) \div 4
\* lattice basis of splitScalarEndo (b2 = a1)
ENDO_a1 == 2
ENDO_b1 == -13
ENDO_a2 == 15
ENDO_b2 == ENDO_a1
\* Point.BASE._setWindowSize(8)
DEFAULT_WINDOW == 2
\* the literal 1000 of the nonce loop
MAX_TRIES == 1000

\* ------------------------------------------------------------ results
Ok(v) == [tag |-> "ok", val |-> v]
Throw(e) == [tag |-> "throw", err |-> e]
IsOk(r) == r.tag = "ok"
IsThrow(r) == r.tag = "throw"
Undefined == [tag |-> "undefined"]

\* ------------------------------------------------------ field arithmetic
\* a % b of the code is truncated; result >= 0 ? result : b + result
mod(a, b) == a % b
modP(a) == mod(a, CURVE_P)
mulP(a, b) == modP(modP(a) * modP(b))

Pow2(e) == 2 ^ e

RECURSIVE powModLoop(_, _, _, _)
powModLoop(res, x, power, order) ==
  IF power > 0
    THEN powModLoop(IF power % 2 = 1 THEN mod(res * x, order) ELSE res,
                    mod(x * x, order), power \div 2, order)
    ELSE res
powMod(x, power, order) == powModLoop(1, x, power, order)

\* egcd(a, b) returns [gcd, x, y]
RECURSIVE egcdLoop(_, _, _, _, _, _)
egcdLoop(a, b, x, y, u, v) ==
  IF a # 0
    THEN LET q == b \div a
             r == b % a
             m == x - u * q
             n == y - v * q
         IN egcdLoop(r, a, u, v, m, n)
    ELSE <<b, x, y>>
egcd(a, b) == egcdLoop(a, b, 0, 1, 1, 0)

invert(number, modulo) ==
  IF number = 0 \/ modulo <= 0
    THEN Throw("invert: expected positive integers")
    ELSE LET g == egcd(mod(number, modulo), modulo)
         IN IF g[1] # 1 THEN Throw("invert: does not exist")
                        ELSE Ok(mod(g[2], modulo))

\* Short Weierstrass right-hand side x^3 + a x + b with a = 0
weistrass(x) == modP(mulP(mulP(x, x), x) + CURVE_b)

\* ------------------------------------------------------- JacobianPoint
JP(x, y, z) == [x |-> x, y |-> y, z |-> z]
Pt(x, y) == [x |-> x, y |-> y]
JacobianPoint_BASE == JP(CURVE_Gx, CURVE_Gy, 1)
JacobianPoint_ZERO == JP(0, 1, 0)
Point_BASE == Pt(CURVE_Gx, CURVE_Gy)
Point_ZERO == Pt(0, 0)

fromAffine(p) == JP(p.x, p.y, 1)

JacobianPoint_equals(a, b) ==
  LET az2 == mulP(a.z, a.z)
      az3 == mulP(a.z, az2)
      bz2 == mulP(b.z, b.z)
      bz3 == mulP(b.z, bz2)
  IN mulP(a.x, bz2) = mulP(az2, b.x) /\ mulP(a.y, bz3) = mulP(az3, b.y)

JacobianPoint_negate(p) == JP(p.x, modP(-p.y), p.z)

JacobianPoint_double(p) ==
  LET X1 == p.x
      Y1 == p.y
      Z1 == p.z
      A == mulP(X1, X1)
      B == mulP(Y1, Y1)
      C == mulP(B, B)
      D == modP(2 * modP(mulP(X1 + B, X1 + B) - A - C))
      E == modP(3 * A)
      F == mulP(E, E)
      X3 == modP(F - 2 * D)
      Y3 == modP(mulP(E, D - X3) - 8 * C)
      Z3 == modP(2 * mulP(Y1, Z1))
  IN JP(X3, Y3, Z3)

\* add() once neither operand has a zero x or y
addFormula(this, other) ==
  LET X1 == this.x
      Y1 == this.y
      Z1 == this.z
      X2 == other.x
      Y2 == other.y
      Z2 == other.z
      Z1Z1 == mulP(Z1, Z1)
      Z2Z2 == mulP(Z2, Z2)
      U1 == mulP(X1, Z2Z2)
      U2 == mulP(X2, Z1Z1)
      S1 == mulP(mulP(Y1, Z2), Z2Z2)
      S2 == mulP(mulP(Y2, Z1), Z1Z1)
      H == modP(U2 - U1)
      r == modP(S2 - S1)
      HH == mulP(H, H)
      HHH == mulP(H, HH)
      V == mulP(U1, HH)
      X3 == modP(mulP(r, r) - HHH - 2 * V)
      Y3 == modP(mulP(r, V - X3) - mulP(S1, HHH))
      Z3 == mulP(mulP(Z1, Z2), H)
  IN IF H = 0 THEN (IF r = 0 THEN JacobianPoint_double(this)
                             ELSE JacobianPoint_ZERO)
     ELSE JP(X3, Y3, Z3)

JacobianPoint_add(this, other) ==
  IF other.x = 0 \/ other.y = 0 THEN this
  ELSE IF this.x = 0 \/ this.y = 0 THEN other
  ELSE addFormula(this, other)

\* toAffine(invZ = invert(this.z))
toAffineWith_squareOnly(p, invZ) ==
  Pt(mulP(p.x, mulP(invZ, invZ)), mulP(p.y, mulP(invZ, invZ)))
toAffineWith(p, invZ) ==
  LET invZ2 == mulP(invZ, invZ)
  IN Pt(mulP(p.x, invZ2), mulP(mulP(p.y, invZ2), invZ))
toAffine(p) ==
  LET inv == invert(p.z, CURVE_P)
  IN IF IsThrow(inv) THEN inv ELSE Ok(toAffineWith(p, inv.val))

\* Montgomery batch inversion; zero entries are skipped and left untouched.
\* Forward pass: scratch[i] = running product before nums[i].
RECURSIVE invertBatchFwd(_, _, _, _, _)
invertBatchFwd(nums, n, i, acc, scratch) ==
  IF i > Len(nums) THEN <<acc, scratch>>
  ELSE IF nums[i] = 0 THEN invertBatchFwd(nums, n, i + 1, acc, Append(scratch, 0))
  ELSE invertBatchFwd(nums, n, i + 1, mod(acc * nums[i], n), Append(scratch, acc))
\* Backward pass: nums[i] = acc * scratch[i]; acc = acc * old nums[i].
RECURSIVE invertBatchBwd(_, _, _, _, _)
invertBatchBwd(nums, n, i, acc, scratch) ==
  IF i < 1 THEN nums
  ELSE IF nums[i] = 0 THEN invertBatchBwd(nums, n, i - 1, acc, scratch)
  ELSE invertBatchBwd([nums EXCEPT ![i] = mod(acc * scratch[i], n)], n, i - 1,
                      mod(acc * nums[i], n), scratch)
\* acc = invert(acc, n) and the backward pass
invertBatchInv(nums, n, inv, scratch) ==
  IF IsThrow(inv) THEN inv
  ELSE Ok(invertBatchBwd(nums, n, Len(nums), inv.val, scratch))
invertBatchAcc(nums, n, fwd) == invertBatchInv(nums, n, invert(fwd[1], n), fwd[2])
invertBatch(nums, n) == invertBatchAcc(nums, n, invertBatchFwd(nums, n, 1, 1, <<>>))

\* points.map((p, i) => p.toAffine(toInv[i]))
toAffineEach(points, toInv) ==
  IF IsThrow(toInv) THEN toInv
  ELSE Ok([i \in 1..Len(points) |-> toAffineWith(points[i], toInv.val[i])])
toAffineBatch(points) ==
  toAffineEach(points, invertBatch([i \in 1..Len(points) |-> points[i].z], CURVE_P))

fromAffineEach(aff) ==
  IF IsThrow(aff) THEN aff
  ELSE Ok([i \in 1..Len(aff.val) |-> fromAffine(aff.val[i])])
normalizeZ(points) == fromAffineEach(toAffineBatch(points))

\* ------------------------------------------------- scalar multiplication
\* [k1neg, k1, k2neg, k2] with k = k1 + k2 * lambda (mod n)
splitScalarSigned(k1, k2) ==
  [k1neg |-> k1 < 0, k1 |-> IF k1 < 0 THEN -k1 ELSE k1,
   k2neg |-> k2 < 0, k2 |-> IF k2 < 0 THEN -k2 ELSE k2]
splitScalarC(k, c1, c2) ==
  splitScalarSigned(k - c1 * ENDO_a1 - c2 * ENDO_a2, (-c1) * ENDO_b1 - c2 * ENDO_b2)
splitScalarEndo(k) ==
  splitScalarC(k, (ENDO_b2 * k) \div CURVE_n, ((-ENDO_b1) * k) \div CURVE_n)

\* k2p = new JacobianPoint(mod(k2p.x * CURVE.beta), k2p.y, k2p.z)
endoMap(p) == JP(mulP(p.x, CURVE_beta), p.y, p.z)

\* if (k1neg) k1p = k1p.negate(); if (k2neg) ...; then k1p.add(k2p)
endoJoin(sp, k1p, k2p) ==
  JacobianPoint_add(IF sp.k1neg THEN JacobianPoint_negate(k1p) ELSE k1p,
                    endoMap(IF sp.k2neg THEN JacobianPoint_negate(k2p) ELSE k2p))

\* the double-and-add loop of multiplyUnsafe
RECURSIVE unsafeLoop(_, _, _, _, _)
unsafeLoop(k1, k2, k1p, k2p, d) ==
  IF k1 > 0 \/ k2 > 0
    THEN unsafeLoop(k1 \div 2, k2 \div 2,
                    IF k1 % 2 = 1 THEN JacobianPoint_add(k1p, d) ELSE k1p,
                    IF k2 % 2 = 1 THEN JacobianPoint_add(k2p, d) ELSE k2p,
                    JacobianPoint_double(d))
    ELSE <<k1p, k2p>>

multiplyUnsafeJoin(sp, acc) == endoJoin(sp, acc[1], acc[2])
multiplyUnsafeEndo(this, sp) ==
  multiplyUnsafeJoin(sp, unsafeLoop(sp.k1, sp.k2, JacobianPoint_ZERO,
                                    JacobianPoint_ZERO, this))
multiplyUnsafe(this, scalar) ==
  IF mod(scalar, CURVE_n) <= 0 THEN Throw("Point#multiply: invalid scalar")
  ELSE Ok(multiplyUnsafeEndo(this, splitScalarEndo(mod(scalar, CURVE_n))))

\* number of iterations of "for (window = 0; window < 128 / W + 2; window++)"
Abs(x) == IF x < 0 THEN 0 - x ELSE x
Windows(W) == (HALF_SIZE + W - 1) \div W + 2

\* inner loop of precomputeWindow: base = base.add(p); points.push(base)
\* (base is the last point pushed)
RECURSIVE precomputeInner(_, _, _, _)
precomputeInner(points, p, i, W) ==
  IF i < Pow2(W - 1)
    THEN precomputeInner(Append(points, JacobianPoint_add(points[Len(points)], p)),
                         p, i + 1, W)
    ELSE points
\* outer loop: base = p; points.push(base); inner loop; p = base.double()
RECURSIVE precomputeOuter(_, _, _, _)
precomputeDouble(points, window, W) ==
  precomputeOuter(points, JacobianPoint_double(points[Len(points)]), window, W)
precomputeOuter(points, p, window, W) ==
  IF window < Windows(W)
    THEN precomputeDouble(precomputeInner(Append(points, p), p, 1, W), window + 1, W)
    ELSE points
precomputeWindow(this, W) == precomputeOuter(<<>>, this, 0, W)

\* one window of the wNAF loop: st = [n, p, f, np, nf, wbits, index] with
\* np / nf the number of additions made into the real / the fake
\* accumulator, wbits the digits taken so far and index the (0-based)
\* indexes read in precomputes
wNAFAdd_skipZero(st, n2, window, wbits, offset, precomputes) ==
  IF wbits = 0
    THEN [st EXCEPT !.n = n2, !.wbits = Append(@, wbits), !.index = @]
    ELSE [st EXCEPT !.n = n2, !.np = @ + 1,
            !.wbits = Append(@, wbits), !.index = Append(@, offset - 1 + Abs(wbits)),
            !.p = JacobianPoint_add(@, IF wbits < 0
                                         THEN JacobianPoint_negate(precomputes[offset - wbits])
                                         ELSE precomputes[offset + wbits])]
wNAFAdd(st, n2, window, wbits, offset, precomputes) ==
  IF wbits = 0
    THEN [st EXCEPT !.n = n2, !.nf = @ + 1,
            !.wbits = Append(@, wbits), !.index = Append(@, offset),
            !.f = JacobianPoint_add(@, IF window % 2 = 1
                                         THEN JacobianPoint_negate(precomputes[offset + 1])
                                         ELSE precomputes[offset + 1])]
    ELSE [st EXCEPT !.n = n2, !.np = @ + 1,
            !.wbits = Append(@, wbits), !.index = Append(@, offset - 1 + Abs(wbits)),
            !.p = JacobianPoint_add(@, IF wbits < 0
                                         THEN JacobianPoint_negate(precomputes[offset - wbits])
                                         ELSE precomputes[offset + wbits])]
wNAFBits_noCarry(st, window, W, precomputes, raw, shifted) ==
  IF raw > Pow2(W - 1)
    THEN wNAFAdd(st, shifted, window, raw - Pow2(W), window * Pow2(W - 1), precomputes)
    ELSE wNAFAdd(st, shifted, window, raw, window * Pow2(W - 1), precomputes)
wNAFBits(st, window, W, precomputes, raw, shifted) ==
  IF raw > Pow2(W - 1)
    THEN wNAFAdd(st, shifted + 1, window, raw - Pow2(W), window * Pow2(W - 1), precomputes)
    ELSE wNAFAdd(st, shifted, window, raw, window * Pow2(W - 1), precomputes)
wNAFStep(st, window, W, precomputes) ==
  wNAFBits(st, window, W, precomputes, st.n % Pow2(W), st.n \div Pow2(W))
RECURSIVE wNAFLoop(_, _, _, _)
wNAFLoop(st, window, W, precomputes) ==
  IF window < Windows(W)
    THEN wNAFLoop(wNAFStep(st, window, W, precomputes), window + 1, W, precomputes)
    ELSE st

\* The objects that have an identity in the WeakMap: the singleton Point.BASE
\* and one Point object held by the caller; "NONE" is an absent affinePoint.
Objects == {"BASE", "USER"}

\* if (!affinePoint && this.equals(JacobianPoint.BASE)) affinePoint = Point.BASE
wNAFAffinePoint(this, affinePoint) ==
  IF affinePoint = "NONE" /\ JacobianPoint_equals(this, JacobianPoint_BASE)
    THEN "BASE" ELSE affinePoint
\* W = (affinePoint && affinePoint._WINDOW_SIZE) || 1
wNAFWindow(ap, ws) == IF ap # "NONE" /\ ws[ap] # 0 THEN ws[ap] ELSE 1

\* the precomputes of a call and the WeakMap after it
wNAFStore_negated(ap, cache, norm) ==
  IF IsThrow(norm) THEN [res |-> norm, cache |-> cache]
  ELSE [res |-> norm,
        cache |-> [cache EXCEPT ![ap] =
                     [i \in DOMAIN norm.val |-> JacobianPoint_negate(norm.val[i])]]]
wNAFStore(ap, cache, norm) ==
  IF IsThrow(norm) THEN [res |-> norm, cache |-> cache]
  ELSE [res |-> norm, cache |-> [cache EXCEPT ![ap] = norm.val]]
wNAFPrecomputes(this, ap, W, cache) ==
  IF ap # "NONE" /\ cache[ap] # <<>> THEN [res |-> Ok(cache[ap]), cache |-> cache]
  ELSE IF ap # "NONE" /\ W # 1
    THEN wNAFStore(ap, cache, normalizeZ(precomputeWindow(this, W)))
  ELSE [res |-> Ok(precomputeWindow(this, W)), cache |-> cache]

wNAFRun(n, W, pre) ==
  IF IsThrow(pre.res) THEN pre
  ELSE [res |-> Ok(wNAFLoop([n |-> n, p |-> JacobianPoint_ZERO,
                             f |-> JacobianPoint_ZERO, np |-> 0, nf |-> 0,
                             wbits |-> <<>>, index |-> <<>>],
                            0, W, pre.res.val)),
        cache |-> pre.cache]
wNAFChecked_anyWindow(this, n, ap, W, cache) ==
  wNAFRun(n, W, wNAFPrecomputes(this, ap, W, cache))
wNAFChecked(this, n, ap, W, cache) ==
  IF PRIME_SIZE % W # 0
    THEN [res |-> Throw("Point#wNAF: Invalid precomputation window"), cache |-> cache]
    ELSE wNAFRun(n, W, wNAFPrecomputes(this, ap, W, cache))
wNAFResolved(this, n, ap, ws, cache) ==
  wNAFChecked(this, n, ap, wNAFWindow(ap, ws), cache)
\* wNAF(n, affinePoint): [res |-> Ok([p, f, ...]) or Throw, cache |-> the map after]
wNAF(this, n, affinePoint, ws, cache) ==
  wNAFResolved(this, n, wNAFAffinePoint(this, affinePoint), ws, cache)

\* JacobianPoint.normalizeZ([point, fake])[0]
multiplyNormalize(nz, cache) ==
  IF IsThrow(nz) THEN [res |-> nz, cache |-> cache]
  ELSE [res |-> Ok(nz.val[1]), cache |-> cache]
multiplyJoin(sp, r1, w2) ==
  IF IsThrow(w2.res) THEN w2
  ELSE multiplyNormalize(
         normalizeZ(<<endoJoin(sp, r1.p, w2.res.val.p),
                      JacobianPoint_add(r1.f, w2.res.val.f)>>),
         w2.cache)
multiplyK2(this, sp, affinePoint, ws, w1) ==
  IF IsThrow(w1.res) THEN w1
  ELSE multiplyJoin(sp, w1.res.val, wNAF(this, sp.k2, affinePoint, ws, w1.cache))
multiplyEndo(this, sp, affinePoint, ws, cache) ==
  multiplyK2(this, sp, affinePoint, ws, wNAF(this, sp.k1, affinePoint, ws, cache))
\* JacobianPoint.multiply(scalar, affinePoint)
multiply(this, scalar, affinePoint, ws, cache) ==
  IF mod(scalar, CURVE_n) <= 0
    THEN [res |-> Throw("Point#multiply: invalid scalar"), cache |-> cache]
    ELSE multiplyEndo(this, splitScalarEndo(mod(scalar, CURVE_n)), affinePoint, ws, cache)

\* Point.multiply(scalar) on the Point object obj with coordinates pt
Point_multiplyAffine(m) ==
  IF IsThrow(m.res) THEN m ELSE [res |-> toAffine(m.res.val), cache |-> m.cache]
Point_multiply(pt, obj, scalar, ws, cache) ==
  Point_multiplyAffine(multiply(fromAffine(pt), scalar, obj, ws, cache))

\* ----------------------------------------------------------------- Codec
\* A hex string is a sequence of digits 0..15, a Uint8Array one of 0..255.
Concat(a, b) == a \o b
\* str.slice(from, to): 0-based, half-open, clamped to the string
Slice(str, from, to) ==
  LET a == IF from > Len(str) THEN Len(str) ELSE from
      b == IF to > Len(str) THEN Len(str) ELSE to
  IN IF b <= a THEN <<>> ELSE SubSeq(str, a + 1, b)
SliceFrom(str, from) == Slice(str, from, Len(str))

\* num.toString(16)
RECURSIVE toString16(_)
toString16(num) ==
  IF num < 16 THEN <<num>> ELSE Append(toString16(num \div 16), num % 16)
padStart(str, len) ==
  IF Len(str) >= len THEN str
  ELSE [i \in 1..len |-> IF i <= len - Len(str) THEN 0 ELSE str[i - (len - Len(str))]]

pad64_unpadded(num) == toString16(num)
pad64(num) == padStart(toString16(num), PAD_LEN)

numberToHex(num) ==
  LET hex == toString16(num)
  IN IF Len(hex) % 2 = 1 THEN <<0>> \o hex ELSE hex

\* BigInt("0x" + hex); the empty string is a SyntaxError
RECURSIVE hexValue(_)
hexValue(hex) ==
  IF hex = <<>> THEN 0 ELSE 16 * hexValue(SubSeq(hex, 1, Len(hex) - 1)) + hex[Len(hex)]
hexToNumber(hex) ==
  IF hex = <<>> THEN Throw("SyntaxError: Cannot convert 0x to a BigInt")
  ELSE Ok(hexValue(hex))

hexToArray(hex0) ==
  LET hex == IF Len(hex0) % 2 = 1 THEN <<0>> \o hex0 ELSE hex0
  IN [i \in 1..(Len(hex) \div 2) |-> 16 * hex[2 * i - 1] + hex[2 * i]]

bytesToHex(uint8a) ==
  [i \in 1..(2 * Len(uint8a)) |->
     IF i % 2 = 1 THEN uint8a[(i + 1) \div 2] \div 16 ELSE uint8a[i \div 2] % 16]

bytesToNumber(bytes) == hexToNumber(bytesToHex(bytes))

\* Number.parseInt(str, 16) * 2 on a string of hex digits; NaN for ''
NaN == -1
parseByte_single(str) == IF str = <<>> THEN NaN ELSE hexValue(str)
parseByte(str) == IF str = <<>> THEN NaN ELSE hexValue(str) * 2

\* --------------------------------------------------------------- Point
assertValidity_rangeOnly(pt) ==
  IF pt.x = 0 \/ pt.y = 0 \/ pt.x >= CURVE_P \/ pt.y >= CURVE_P
    THEN Throw("Point is not on elliptic curve")
    ELSE Ok(pt)
assertValidity(pt) ==
  IF pt.x = 0 \/ pt.y = 0 \/ pt.x >= CURVE_P \/ pt.y >= CURVE_P
    THEN Throw("Point is not on elliptic curve")
  ELSE LET left == mod(pt.y * pt.y, CURVE_P)
           right == weistrass(pt.x)
       IN IF (left - right) % CURVE_P = 0 THEN Ok(pt)
          ELSE Throw("Point is not on elliptic curve")

fromCompressedHex(bytes) ==
  LET xr == bytesToNumber(SliceFrom(bytes, 1))
      x == xr.val
      sqrY == weistrass(x)
      y0 == powMod(sqrY, P_DIV4_1, CURVE_P)
      isFirstByteOdd == bytes[1] % 2 = 1
      isYOdd == y0 % 2 = 1
      y == IF isFirstByteOdd # isYOdd THEN modP(-y0) ELSE y0
  IN IF Len(bytes) # 1 + PAD_LEN \div 2
       THEN Throw("Point.fromHex: compressed expects 66 bytes")
     ELSE assertValidity(Pt(x, y))

fromUncompressedHex(bytes) ==
  LET x == bytesToNumber(Slice(bytes, 1, 1 + PAD_LEN \div 2))
      y == bytesToNumber(SliceFrom(bytes, 1 + PAD_LEN \div 2))
  IN IF Len(bytes) # 1 + PAD_LEN
       THEN Throw("Point.fromHex: uncompressed expects 130 bytes")
     ELSE assertValidity(Pt(x.val, y.val))

\* Point.fromHex once hex is a Uint8Array
Point_fromHexBytes(bytes) ==
  IF bytes # <<>> /\ bytes[1] \in {2, 3} THEN fromCompressedHex(bytes)
  ELSE IF bytes # <<>> /\ bytes[1] = 4 THEN fromUncompressedHex(bytes)
  ELSE Throw("Point.fromHex: received invalid point")
Point_fromHex(hex) == Point_fromHexBytes(hexToArray(hex))

Point_toHex(pt, isCompressed) ==
  LET x == pad64(pt.x)
  IN IF isCompressed
       THEN (IF pt.y % 2 = 1 THEN <<0, 3>> ELSE <<0, 2>>) \o x
       ELSE <<0, 4>> \o x \o pad64(pt.y)

Point_equals(a, b) == a.x = b.x /\ a.y = b.y
Point_negate(pt) == Pt(pt.x, modP(-pt.y))
Point_double(pt) == toAffine(JacobianPoint_double(fromAffine(pt)))
Point_add(a, b) == toAffine(JacobianPoint_add(fromAffine(a), fromAffine(b)))
Point_subtract(a, b) == Point_add(a, Point_negate(b))

\* ---------------------------------------------------------- SignResult
SignResult(r, s) == [r |-> r, s |-> s]

sliceDer(s) == IF s[1] >= 8 THEN <<0, 0>> \o s ELSE s

SignResult_toHex(sig) ==
  LET sHex == sliceDer(numberToHex(sig.s))
      rHex == sliceDer(numberToHex(sig.r))
      rLen == numberToHex(Len(rHex) \div 2)
      sLen == numberToHex(Len(sHex) \div 2)
      length == numberToHex(Len(rHex) \div 2 + Len(sHex) \div 2 + 4)
  IN <<3, 0>> \o length \o <<0, 2>> \o rLen \o rHex \o <<0, 2>> \o sLen \o sHex

\* a NaN offset is 0 for String.prototype.slice and NaN + k is NaN
SignResult_fromHex(str) ==
  LET check1 == Slice(str, 0, 2)
      length == parseByte(Slice(str, 2, 4))
      check2 == Slice(str, 4, 6)
      rLen == parseByte(Slice(str, 6, 8))
      rEnd == IF rLen = NaN THEN NaN ELSE 8 + rLen
      r == hexToNumber(IF rEnd = NaN THEN <<>> ELSE Slice(str, 8, rEnd))
      check3 == IF rEnd = NaN THEN Slice(str, 0, 2) ELSE Slice(str, rEnd, rEnd + 2)
      sLen == IF rEnd = NaN THEN parseByte(Slice(str, 0, 4))
                            ELSE parseByte(Slice(str, rEnd + 2, rEnd + 4))
      sStart == IF rEnd = NaN THEN NaN ELSE rEnd + 4
      s == hexToNumber(IF sStart = NaN \/ sLen = NaN THEN <<>>
                       ELSE Slice(str, sStart, sStart + sLen))
  IN IF check1 # <<3, 0>> \/ length = NaN \/ length # Len(str) - 4 \/ check2 # <<0, 2>>
       THEN Throw("SignResult.fromHex: Invalid signature")
     ELSE IF IsThrow(r) THEN r
     ELSE IF check3 # <<0, 2>> THEN Throw("SignResult.fromHex: Invalid signature")
     ELSE IF IsThrow(s) THEN s
     ELSE Ok(SignResult(r.val, s.val))

\* ------------------------------------------------------------- keys
\* A private key argument is [type |-> "bigint" | "hex" | "bytes", val |-> ...].
PrivKeyArg(type, d) ==
  [type |-> type,
   val |-> IF type = "bigint" THEN d
           ELSE IF type = "hex" THEN pad64(d) ELSE hexToArray(pad64(d))]

isValidPrivateKey(privateKey) == 0 < privateKey /\ privateKey < CURVE_n

\* !privateKey holds of 0n and of '' and of no Uint8Array
normalizePrivateKey(privateKey) ==
  IF \/ privateKey.type = "bigint" /\ privateKey.val = 0
     \/ privateKey.type = "hex" /\ privateKey.val = <<>>
    THEN Throw("Expected receive valid private key")
  ELSE IF privateKey.type = "bytes" THEN bytesToNumber(privateKey.val)
  ELSE IF privateKey.type = "hex" THEN hexToNumber(privateKey.val)
  ELSE Ok(privateKey.val)

fromPrivateKeyMultiply(key, ws, cache) ==
  IF IsThrow(key) THEN [res |-> key, cache |-> cache]
  ELSE Point_multiply(Point_BASE, "BASE", key.val, ws, cache)
Point_fromPrivateKey(privateKey, ws, cache) ==
  fromPrivateKeyMultiply(normalizePrivateKey(privateKey), ws, cache)

Point_toRawBytes(pt, isCompressed) == hexToArray(Point_toHex(pt, isCompressed))

getPublicKeyEncode(privateKey, isCompressed, point) ==
  IF IsThrow(point.res) THEN point
  ELSE [res |-> Ok(IF privateKey.type = "hex"
                     THEN Point_toHex(point.res.val, isCompressed)
                     ELSE Point_toRawBytes(point.res.val, isCompressed)),
        cache |-> point.cache]
getPublicKey(privateKey, isCompressed, ws, cache) ==
  getPublicKeyEncode(privateKey, isCompressed, Point_fromPrivateKey(privateKey, ws, cache))

\* ------------------------------------------------------------- sign
\* A Hex argument (message hash, signature, public key) is
\* [type |-> "hex" | "bytes", val |-> ...]; [type |-> "null"] is null.
HexArg(type, bytes) ==
  [type |-> type, val |-> IF type = "hex" THEN bytesToHex(bytes) ELSE bytes]
HexNumber(arg) ==
  IF arg.type = "hex" THEN hexToNumber(arg.val) ELSE bytesToNumber(arg.val)

truncateShift(hash, msg) ==
  IF IsThrow(msg) THEN msg
  ELSE LET delta == (Len(hash) \div 2) * 8 - PRIME_SIZE
           shifted == IF delta > 0 THEN msg.val \div Pow2(delta) ELSE msg.val
       IN Ok(IF shifted >= CURVE_n THEN shifted - CURVE_n ELSE shifted)
truncateHashHex(hash) ==
  truncateShift(hash, hexToNumber(IF hash = <<>> THEN <<0>> ELSE hash))
truncateHash(hash) ==
  truncateHashHex(IF hash.type = "hex" THEN hash.val ELSE bytesToHex(hash.val))

\* utils.hmacSha256(key, ...messages) is computed by the platform's
\* crypto.subtle: a deterministic function of key and concatenated messages
\* with a digest of PRIME_SIZE bits.  The model takes one such function per
\* seed.
RECURSIVE hmacMix(_, _)
hmacMix(acc, bytes) ==
  IF bytes = <<>> THEN acc
  ELSE hmacMix((acc * 31 + bytes[1] + 17) % 256, Tail(bytes))
hmacDigest(acc, len) == [i \in 1..len |-> (acc * (2 * i - 1) + i - 1) % 256]
hmacSha256(seed, key, message) ==
  hmacDigest(hmacMix(hmacMix(seed, key), message), PRIME_SIZE \div 8)

calcQRSFromKResult(q, r, s) ==
  IF r = 0 \/ s = 0 THEN Undefined ELSE Ok([q |-> q, r |-> r, s |-> s])
calcQRSFromKInvert(q, msg, priv, inv) ==
  IF IsThrow(inv) THEN inv
  ELSE calcQRSFromKResult(q, mod(q.x, CURVE_n),
         mod(inv.val * (msg + mod(q.x, CURVE_n) * priv), CURVE_n))
calcQRSFromKPoint(k, msg, priv, m) ==
  IF IsThrow(m.res) THEN m
  ELSE [res |-> calcQRSFromKInvert(m.res.val, msg, priv, invert(k, CURVE_n)),
        cache |-> m.cache]
\* calcQRSFromK(k, msg, priv): Ok([q, r, s]), Undefined or Throw, and the cache
calcQRSFromK(k, msg, priv, ws, cache) ==
  calcQRSFromKPoint(k, msg, priv, Point_multiply(Point_BASE, "BASE", k, ws, cache))

\* Step H3 of getQRSrfc6979; c = [seed, h1n, priv, ws] is fixed over the loop
RECURSIVE getQRSLoop(_, _, _, _, _)
getQRSRetry(c, k, v, i, cache) ==
  getQRSLoop(c, k, hmacSha256(c.seed, k, v), i + 1, cache)
getQRSCheck(c, k, v, i, qrs) ==
  IF IsThrow(qrs.res) \/ IsOk(qrs.res) THEN qrs
  ELSE getQRSRetry(c, hmacSha256(c.seed, k, v \o <<0>>), v, i, qrs.cache)
\* isValidPrivateKey(T) && (qrs = calcQRSFromK(T, h1n, privateKey))
getQRSCandidate_unchecked(c, T, cache) == calcQRSFromK(T, c.h1n, c.priv, c.ws, cache)
getQRSCandidate(c, T, cache) ==
  IF isValidPrivateKey(T) THEN calcQRSFromK(T, c.h1n, c.priv, c.ws, cache)
  ELSE [res |-> Undefined, cache |-> cache]
getQRSTry(c, k, v, i, cache) ==
  getQRSCheck(c, k, v, i, getQRSCandidate(c, bytesToNumber(v).val, cache))
getQRSLoop(c, k, v, i, cache) ==
  IF i >= MAX_TRIES
    THEN [res |-> Throw("secp256k1: Tried 1,000 k values for sign(), all were invalid"),
          cache |-> cache]
    ELSE getQRSTry(c, k, hmacSha256(c.seed, k, v), i, cache)

\* Steps B to G
getQRSStepG(c, k, cache) == getQRSLoop(c, k, hmacSha256(c.seed, k, c.v), 0, cache)
getQRSStepF(c, x, h1, v, cache) ==
  getQRSStepG([c EXCEPT !.v = v],
              hmacSha256(c.seed, c.k, v \o <<1>> \o x \o h1), cache)
getQRSStepE(c, x, h1, k, cache) ==
  getQRSStepF([c EXCEPT !.k = k], x, h1, hmacSha256(c.seed, k, c.v), cache)
getQRSStepD(c, x, h1, cache) ==
  getQRSStepE(c, x, h1, hmacSha256(c.seed, c.k, c.v \o <<0>> \o x \o h1), cache)
\* h1 = hexToArray(pad64(num)); h1n = bytesToNumber(h1)
getQRSh1n(num) == bytesToNumber(hexToArray(pad64(num))).val
getQRSNumber(seed, num, privateKey, ws, cache) ==
  IF IsThrow(num) THEN [res |-> num, cache |-> cache]
  ELSE getQRSStepD([seed |-> seed, priv |-> privateKey, ws |-> ws,
                    h1n |-> getQRSh1n(num.val),
                    v |-> [i \in 1..(PRIME_SIZE \div 8) |-> 1],
                    k |-> [i \in 1..(PRIME_SIZE \div 8) |-> 0]],
                   hexToArray(pad64(privateKey)), hexToArray(pad64(num.val)), cache)
getQRSrfc6979(seed, msgHash, privateKey, ws, cache) ==
  getQRSNumber(seed, HexNumber(msgHash), privateKey, ws, cache)

\* opts = [recovered |-> BOOLEAN, canonical |-> BOOLEAN]
signEncode(msgHash, opts, sig, recovery) ==
  LET hashed == IF msgHash.type = "hex" THEN SignResult_toHex(sig)
                ELSE hexToArray(SignResult_toHex(sig))
  IN Ok(IF opts.recovered THEN <<hashed, recovery>> ELSE hashed)
signAdjust_keepRecovery(msgHash, opts, qrs, recovery) ==
  IF qrs.s > CURVE_n \div 2 /\ opts.canonical
    THEN signEncode(msgHash, opts, SignResult(qrs.r, CURVE_n - qrs.s), recovery)
    ELSE signEncode(msgHash, opts, SignResult(qrs.r, qrs.s), recovery)
signAdjust(msgHash, opts, qrs, recovery) ==
  IF qrs.s > CURVE_n \div 2 /\ opts.canonical
    THEN signEncode(msgHash, opts, SignResult(qrs.r, CURVE_n - qrs.s),
                    IF recovery % 2 = 1 THEN recovery - 1 ELSE recovery + 1)
    ELSE signEncode(msgHash, opts, SignResult(qrs.r, qrs.s), recovery)
signResult(msgHash, opts, g) ==
  IF IsThrow(g.res) THEN g
  ELSE [res |-> signAdjust(msgHash, opts, g.res.val,
                  (IF g.res.val.q.x = g.res.val.r THEN 0 ELSE 2) + (g.res.val.q.y % 2)),
        cache |-> g.cache]
signKey(seed, msgHash, priv, opts, ws, cache) ==
  IF IsThrow(priv) THEN [res |-> priv, cache |-> cache]
  ELSE signResult(msgHash, opts, getQRSrfc6979(seed, msgHash, priv.val, ws, cache))
\* sign(msgHash, privateKey, opts): [res |-> Ok(..) or Throw, cache |-> ...]
sign(seed, msgHash, privateKey, opts, ws, cache) ==
  IF msgHash.type = "null"
    THEN [res |-> Throw("Expected valid msgHash"), cache |-> cache]
    ELSE signKey(seed, msgHash, normalizePrivateKey(privateKey), opts, ws, cache)

\* ----------------------------------------------------------- verify
\* signature instanceof SignResult ? signature : SignResult.fromHex(signature)
normalizeSignature(signature) ==
  IF signature.type = "SignResult" THEN Ok(signature.val)
  ELSE SignResult_fromHex(IF signature.type = "bytes" THEN bytesToHex(signature.val)
                          ELSE signature.val)
\* publicKey instanceof Point ? publicKey : Point.fromHex(publicKey)
normalizePublicKey(publicKey) ==
  IF publicKey.type = "Point" THEN Ok(publicKey.val)
  ELSE IF publicKey.type = "bytes" THEN Point_fromHexBytes(publicKey.val)
  ELSE Point_fromHex(publicKey.val)

verifyResult(r, res) == IF IsThrow(res) THEN res ELSE Ok(res.val.x = r)
verifyAdd(r, Ghs1, Prs1) ==
  IF IsThrow(Prs1) THEN Prs1
  ELSE verifyResult(r, toAffine(JacobianPoint_add(Ghs1, Prs1.val)))
verifyUnsafe(sig, pubKey, s1, m) ==
  IF IsThrow(m.res) THEN m
  ELSE [res |-> verifyAdd(sig.r, m.res.val,
                          multiplyUnsafe(pubKey, mod(sig.r * s1, CURVE_n))),
        cache |-> m.cache]
verifyMultiply(h, sig, pubKey, s1, ws, cache) ==
  IF IsThrow(s1) THEN [res |-> s1, cache |-> cache]
  ELSE verifyUnsafe(sig, pubKey, s1.val,
         multiply(JacobianPoint_BASE, mod(h * s1.val, CURVE_n), "NONE", ws, cache))
verifyInvert_lowS(h, sig, pub, ws, cache) ==
  IF IsThrow(pub) THEN [res |-> pub, cache |-> cache]
  ELSE IF sig.s > CURVE_n \div 2 THEN [res |-> Ok(FALSE), cache |-> cache]
  ELSE verifyMultiply(h, sig, fromAffine(pub.val), invert(sig.s, CURVE_n), ws, cache)
verifyInvert(h, sig, pub, ws, cache) ==
  IF IsThrow(pub) THEN [res |-> pub, cache |-> cache]
  ELSE verifyMultiply(h, sig, fromAffine(pub.val), invert(sig.s, CURVE_n), ws, cache)
verifyKey(h, sig, publicKey, ws, cache) ==
  IF IsThrow(sig) THEN [res |-> sig, cache |-> cache]
  ELSE verifyInvert(h, sig.val, normalizePublicKey(publicKey), ws, cache)
verifySignature(h, signature, publicKey, ws, cache) ==
  IF IsThrow(h) THEN [res |-> h, cache |-> cache]
  ELSE verifyKey(h.val, normalizeSignature(signature), publicKey, ws, cache)
\* verify(signature, msgHash, publicKey): [res |-> Ok(BOOLEAN) or Throw, cache]
verify(signature, msgHash, publicKey, ws, cache) ==
  verifySignature(truncateHash(msgHash), signature, publicKey, ws, cache)

\* ---------------------------------------------------------- recovery
fromSignatureCheck(point) ==
  IF IsThrow(point) THEN point
  ELSE IF IsThrow(assertValidity(point.val)) THEN assertValidity(point.val)
  ELSE point
fromSignatureAffine(Q) ==
  IF IsThrow(Q) THEN Q ELSE fromSignatureCheck(toAffine(Q.val))
fromSignatureJoin(sP, rinv, m) ==
  IF IsThrow(m.res) THEN m
  ELSE [res |-> fromSignatureAffine(
                  multiplyUnsafe(JacobianPoint_add(sP, JacobianPoint_negate(m.res.val)),
                                 rinv)),
        cache |-> m.cache]
fromSignatureBase(sP, h, rinv, ws, cache) ==
  IF IsThrow(sP) THEN [res |-> sP, cache |-> cache]
  ELSE fromSignatureJoin(sP.val, rinv,
                         multiply(JacobianPoint_BASE, h, "NONE", ws, cache))
fromSignaturePoint(sig, h, rinv, P_, ws, cache) ==
  IF IsThrow(P_) THEN [res |-> P_, cache |-> cache]
  ELSE fromSignatureBase(multiplyUnsafe(fromAffine(P_.val), sig.s), h, rinv, ws, cache)
fromSignatureHash(sig, rinv, h, recovery, ws, cache) ==
  IF IsThrow(h) THEN [res |-> h, cache |-> cache]
  ELSE fromSignaturePoint(sig, h.val, rinv,
         Point_fromHex(<<0, 2 + (recovery % 2)>> \o pad64(sig.r)), ws, cache)
fromSignatureInvert(msgHash, sig, rinv, recovery, ws, cache) ==
  IF IsThrow(rinv) THEN [res |-> rinv, cache |-> cache]
  ELSE fromSignatureHash(sig, rinv.val, HexNumber(msgHash), recovery, ws, cache)
fromSignatureSign(msgHash, sig, recovery, ws, cache) ==
  IF IsThrow(sig) THEN [res |-> sig, cache |-> cache]
  ELSE IF sig.val.r = 0 \/ sig.val.s = 0 THEN [res |-> Undefined, cache |-> cache]
  ELSE fromSignatureInvert(msgHash, sig.val, invert(sig.val.r, CURVE_n),
                           recovery, ws, cache)
\* Point.fromSignature(msgHash, signature, recovery)
Point_fromSignature(msgHash, signature, recovery, ws, cache) ==
  fromSignatureSign(msgHash, normalizeSignature(signature), recovery, ws, cache)

recoverPublicKeyEncode(msgHash, point) ==
  IF ~IsOk(point.res) THEN point
  ELSE [res |-> Ok(IF msgHash.type = "hex" THEN Point_toHex(point.res.val, FALSE)
                   ELSE Point_toRawBytes(point.res.val, FALSE)),
        cache |-> point.cache]
\* recoverPublicKey(msgHash, signature, recovery)
recoverPublicKey(msgHash, signature, recovery, ws, cache) ==
  recoverPublicKeyEncode(msgHash,
    Point_fromSignature(msgHash, signature, recovery, ws, cache))

\* ------------------------------------------------------------- state
\* WINDOW_SIZE[o]      the _WINDOW_SIZE field of Point object o (0: undefined)
\* pointPrecomputes[o] the WeakMap entry of o (<<>>: no entry)
\* inp                 the arguments of the calls of the scenario
\* PRIVATE_STORE_DATA  handler.ts: the key-value store, a function from the
\*                     keys that were put to the strings stored
\* now                 the value Date.now() returns
\* op                  the last operation applied
\* out                 what the operations returned
VARIABLES WINDOW_SIZE, pointPrecomputes, PRIVATE_STORE_DATA, now, inp, op, out
vars == <<WINDOW_SIZE, pointPrecomputes, PRIVATE_STORE_DATA, now, inp, op, out>>

Scalars == 1..(CURVE_n - 1)
\* every affine point that passes assertValidity
ValidPoints ==
  {pt \in [x : 1..(CURVE_P - 1), y : 1..(CURVE_P - 1)] : IsOk(assertValidity(pt))}

\* handler.ts at load: global.PRIVATE_STORE_DATA = {}; the clock read by
\* Date.now() starts at 1
InitStore ==
  /\ PRIVATE_STORE_DATA = <<>>
  /\ now = 1

\* module load: Point.BASE._setWindowSize(8) on an empty WeakMap
InitLibrary ==
  /\ WINDOW_SIZE = [o \in Objects |-> IF o = "BASE" THEN DEFAULT_WINDOW ELSE 0]
  /\ pointPrecomputes = [o \in Objects |-> <<>>]
  /\ InitStore

\* ---------------------------------------------------------------------
\* SpecMul: a point P is multiplied by k = 1, 2, ... in both modes while the
\* scenario keeps P added to itself k times.
toAffineResult(j) == IF IsThrow(j) THEN j ELSE toAffine(j.val)
MulReturn(P, obj, k, sum, ct, vt) ==
  /\ out' = [ct |-> ct.res, vt |-> vt, sum |-> sum]
  /\ pointPrecomputes' = ct.cache
  /\ inp' = [P |-> P, obj |-> obj, k |-> k]
  /\ op' = "multiply"
  /\ UNCHANGED <<WINDOW_SIZE, PRIVATE_STORE_DATA, now>>
MulCall(P, obj, k, sum) ==
  MulReturn(P, obj, k, sum,
            Point_multiply(P, obj, k, WINDOW_SIZE, pointPrecomputes),
            toAffineResult(multiplyUnsafe(fromAffine(P), k)))

setWindowSize_keepTable(o, windowSize, ws, cache) ==
  [ws |-> [ws EXCEPT ![o] = windowSize], cache |-> cache]
\* Point._setWindowSize(windowSize) on object o
setWindowSize(o, windowSize, ws, cache) ==
  [ws |-> [ws EXCEPT ![o] = windowSize], cache |-> [cache EXCEPT ![o] = <<>>]]

\* utils.precompute(windowSize, point): the window size is set and the cache
\* entry deleted before multiply(3) runs, whether or not multiply throws
utilsPrecomputeResult(pt, set, m) ==
  [res |-> IF IsThrow(m.res) THEN m.res ELSE Ok(pt), ws |-> set.ws, cache |-> m.cache]
utilsPrecomputeMultiply(pt, o, set) ==
  utilsPrecomputeResult(pt, set, Point_multiply(pt, o, 3, set.ws, set.cache))
utilsPrecompute(windowSize, pt, o, ws, cache) ==
  utilsPrecomputeMultiply(pt, o, setWindowSize(o, windowSize, ws, cache))

MaxPointX == 12
MaxWindow == 4
TestPoints == {pt \in ValidPoints : pt.x <= MaxPointX}
WindowSizes == 1..MaxWindow

InitMul ==
  /\ InitLibrary
  /\ inp \in [P : TestPoints, obj : {"USER"}, k : {0}]
       \cup [P : {Point_BASE}, obj : {"BASE"}, k : {0}]
  /\ op = "init"
  /\ out = Undefined

\* cached = utils.precompute(W, P): a new Point object for P with window W
MulPrecompute ==
  /\ op = "init"
  /\ inp.obj = "USER"
  /\ \E W \in WindowSizes :
       \E pc \in {utilsPrecompute(W, inp.P, "USER", WINDOW_SIZE, pointPrecomputes)} :
          /\ WINDOW_SIZE' = pc.ws
          /\ pointPrecomputes' = pc.cache
          /\ out' = pc.res
          /\ op' = IF IsOk(pc.res) THEN "precompute" ELSE "precompute failed"
  /\ UNCHANGED <<inp, PRIVATE_STORE_DATA, now>>

MulFirst ==
  /\ op \in {"init", "precompute"}
  /\ MulCall(inp.P, inp.obj, 1, Ok(inp.P))

MulNext ==
  /\ op = "multiply"
  /\ inp.k < CURVE_n - 1
  /\ IsOk(out.sum)
  /\ MulCall(inp.P, inp.obj, inp.k + 1, Point_add(out.sum.val, inp.P))

NextMul == MulPrecompute \/ MulFirst \/ MulNext
SpecMul == InitMul /\ [][NextMul]_vars

\* C4: multiply(k) and multiplyUnsafe(k) return the same affine point, which
\* is P added to itself k times, for every valid point P and 0 < k < n.
C4_MultiplyAgreement ==
  op = "multiply" =>
    /\ IsOk(out.ct) /\ IsOk(out.vt) /\ IsOk(out.sum)
    /\ out.ct.val = out.sum.val
    /\ out.vt.val = out.sum.val
C4_Witness ==
  /\ op = "multiply" /\ inp.k = CURVE_n - 1 /\ inp.obj = "USER"
  /\ WINDOW_SIZE["USER"] = 4
  /\ IsOk(out.ct) /\ out.ct.val = Point_negate(inp.P) /\ out.vt = out.ct

\* ---------------------------------------------------------------------
\* SpecPoint: the affine group operations and the point codec, each applied
\* once to arguments drawn from the valid points.
AddInputs == [kind : {"add"}, P : ValidPoints, Q : ValidPoints \cup {Point_ZERO}]
InverseInputs == [kind : {"inverse"}, P : ValidPoints]
CodecInputs == [kind : {"codec"}, P : ValidPoints, isCompressed : BOOLEAN]

InitPoint ==
  /\ InitLibrary
  /\ inp \in AddInputs \cup InverseInputs \cup CodecInputs
  /\ op = "init"
  /\ out = Undefined

\* P.add(Q) and Q.add(P)
PointAdd ==
  /\ op = "init" /\ inp.kind = "add"
  /\ out' = [pq |-> Point_add(inp.P, inp.Q), qp |-> Point_add(inp.Q, inp.P)]
  /\ op' = "add"
  /\ UNCHANGED <<WINDOW_SIZE, pointPrecomputes, inp, PRIVATE_STORE_DATA, now>>

\* P.add(P.negate()) and P.subtract(P)
PointInverse ==
  /\ op = "init" /\ inp.kind = "inverse"
  /\ out' = [add |-> Point_add(inp.P, Point_negate(inp.P)),
             sub |-> Point_subtract(inp.P, inp.P)]
  /\ op' = "inverse"
  /\ UNCHANGED <<WINDOW_SIZE, pointPrecomputes, inp, PRIVATE_STORE_DATA, now>>

\* Point.fromHex(P.toHex(isCompressed))
PointCodec ==
  /\ op = "init" /\ inp.kind = "codec"
  /\ out' = [hex |-> Point_toHex(inp.P, inp.isCompressed),
             point |-> Point_fromHex(Point_toHex(inp.P, inp.isCompressed))]
  /\ op' = "codec"
  /\ UNCHANGED <<WINDOW_SIZE, pointPrecomputes, inp, PRIVATE_STORE_DATA, now>>

NextPoint == PointAdd \/ PointInverse \/ PointCodec
SpecPoint == InitPoint /\ [][NextPoint]_vars

\* two calls ended the same way: both returned the same value or both threw
SameOutcome(a, b) == a.tag = b.tag /\ (IsOk(a) => a.val = b.val)
Returned(r, v) == IsOk(r) /\ r.val = v

\* C5 as claimed: for all valid points P and Q, P.add(Q) and Q.add(P) return
\* the same point, and adding Point.ZERO on either side returns the other
\* operand.
C5_AddCommutesAndIdentity ==
  op = "add" =>
    /\ IsOk(out.pq) /\ IsOk(out.qp) /\ out.pq.val = out.qp.val
    /\ (inp.Q = Point_ZERO => Returned(out.pq, inp.P) /\ Returned(out.qp, inp.P))

\* What holds of Point.add: the two orders end the same way, they return a
\* point unless Q = -P (the error of C6_InverseReturnsZero), and Point.ZERO
\* is neutral on either side.
AddCommutesOutsideInverse ==
  op = "add" =>
    /\ SameOutcome(out.pq, out.qp)
    /\ (inp.Q # Point_negate(inp.P) => IsOk(out.pq))
    /\ (inp.Q = Point_ZERO => Returned(out.pq, inp.P) /\ Returned(out.qp, inp.P))

\* C6 as claimed: P.add(P.negate()) and P.subtract(P) return Point.ZERO
\* without raising an error.
C6_InverseReturnsZero ==
  op = "inverse" => Returned(out.add, Point_ZERO) /\ Returned(out.sub, Point_ZERO)

\* C7: Point.fromHex(P.toHex(compressed)) is P, with prefix 02 / 03 by the
\* parity of y then x when compressed, and 04 then x then y when not.
C7_PointCodecRoundTrip ==
  op = "codec" =>
    /\ Returned(out.point, inp.P)
    /\ out.hex = (IF inp.isCompressed
                    THEN (IF inp.P.y % 2 = 0 THEN <<0, 2>> ELSE <<0, 3>>)
                           \o <<inp.P.x \div 16, inp.P.x % 16>>
                    ELSE <<0, 4>> \o <<inp.P.x \div 16, inp.P.x % 16>>
                           \o <<inp.P.y \div 16, inp.P.y % 16>>)
C7_Witness ==
  /\ op = "codec" /\ inp.isCompressed /\ inp.P.y % 2 = 1
  /\ Returned(out.point, inp.P) /\ SubSeq(out.hex, 1, 2) = <<0, 3>>

\* ---------------------------------------------------------------------
\* SpecDer: a signature (r, s) is DER encoded and decoded again, as a hex
\* string and as bytes.
InitDer ==
  /\ InitLibrary
  /\ inp \in [r : Scalars, s : Scalars]
  /\ op = "init"
  /\ out = Undefined

\* SignResult.fromHex(new SignResult(r, s).toHex()), and the same through
\* toRawBytes() and a Uint8Array argument
DerRoundTrip ==
  /\ op = "init"
  /\ out' = [hex |-> SignResult_toHex(SignResult(inp.r, inp.s)),
             sig |-> SignResult_fromHex(SignResult_toHex(SignResult(inp.r, inp.s))),
             raw |-> SignResult_fromHex(bytesToHex(hexToArray(
                        SignResult_toHex(SignResult(inp.r, inp.s)))))]
  /\ op' = "der"
  /\ UNCHANGED <<WINDOW_SIZE, pointPrecomputes, inp, PRIVATE_STORE_DATA, now>>

NextDer == DerRoundTrip
SpecDer == InitDer /\ [][NextDer]_vars

\* C8: decoding the DER encoding of (r, s), 0 < r, s < n, yields r and s.
C8_DerRoundTrip ==
  op = "der" =>
    /\ Returned(out.sig, SignResult(inp.r, inp.s))
    /\ Returned(out.raw, SignResult(inp.r, inp.s))
C8_Witness ==
  /\ op = "der" /\ inp.r >= 128 /\ inp.s < 16
  /\ Returned(out.sig, SignResult(inp.r, inp.s))
  /\ Len(out.hex) = 18

\* ---------------------------------------------------------------------
\* SpecKey: getPublicKey(d) for every private key d and every representation
\* of it, called twice (the second call finds the table of Point.BASE cached).
KeyTypes == {"bigint", "hex", "bytes"}
InitKey ==
  /\ InitLibrary
  /\ inp \in [d : Scalars, type : KeyTypes, isCompressed : BOOLEAN]
  /\ op = "init"
  /\ out = Undefined

KeyReturn(key, point) ==
  /\ out' = [key |-> key.res, point |-> point.res]
  /\ pointPrecomputes' = key.cache
GetPublicKey ==
  /\ op \in {"init", "getPublicKey"}
  /\ KeyReturn(getPublicKey(PrivKeyArg(inp.type, inp.d), inp.isCompressed,
                            WINDOW_SIZE, pointPrecomputes),
               Point_fromPrivateKey(PrivKeyArg(inp.type, inp.d),
                                    WINDOW_SIZE, pointPrecomputes))
  /\ op' = IF op = "init" THEN "getPublicKey" ELSE "getPublicKey again"
  /\ UNCHANGED <<WINDOW_SIZE, inp, PRIVATE_STORE_DATA, now>>

NextKey == GetPublicKey
SpecKey == InitKey /\ [][NextKey]_vars

OnCurve(pt) == (pt.y * pt.y) % CURVE_P = (pt.x * pt.x * pt.x + 7) % CURVE_P

\* C9: for every private key d in [1, n-1] getPublicKey(d) is (the encoding
\* of) a point other than the identity that satisfies y^2 = x^3 + 7 (mod P).
C9_PublicKeyOnCurve ==
  op \in {"getPublicKey", "getPublicKey again"} =>
    /\ IsOk(out.point) /\ IsOk(out.key)
    /\ out.point.val # Point_ZERO
    /\ out.point.val.x \in 1..(CURVE_P - 1) /\ out.point.val.y \in 1..(CURVE_P - 1)
    /\ OnCurve(out.point.val)
    /\ out.key.val = IF inp.type = "hex"
                       THEN Point_toHex(out.point.val, inp.isCompressed)
                       ELSE hexToArray(Point_toHex(out.point.val, inp.isCompressed))
C9_Witness ==
  /\ op = "getPublicKey again" /\ inp.d = CURVE_n - 1 /\ inp.type = "hex"
  /\ ~inp.isCompressed
  /\ IsOk(out.key) /\ out.key.val = Point_toHex(Point_negate(Point_BASE), FALSE)
  /\ pointPrecomputes["BASE"] # <<>>

\* ---------------------------------------------------------------------
\* SpecSign: getPublicKey(d), sign(h, d, opts), verify(sig, h, pub) and
\* recoverPublicKey(h, sig, recovery) in this order on a freshly loaded
\* library.  Key and hash are both hex strings or both Uint8Arrays.
MaxPriv == 5
MaxHash == 15
MaxSeed == 1
SignKeys == (1..MaxPriv) \cup {CURVE_n - 1}
SignHashes ==
  (0..MaxHash) \cup ((CURVE_n - 1)..(CURVE_n + 1)) \cup {Pow2(PRIME_SIZE) - 1}
SignOpts == [recovered : BOOLEAN, canonical : BOOLEAN]

InitSign ==
  /\ InitLibrary
  /\ \E type \in {"hex", "bytes"}, d \in SignKeys, h \in SignHashes,
        seed \in 0..MaxSeed, opts \in SignOpts :
       inp = [d |-> d, privateKey |-> PrivKeyArg(type, d),
              msgHash |-> HexArg(type, hexToArray(pad64(h))),
              seed |-> seed, opts |-> opts]
  /\ op = "init"
  /\ out = [pub |-> Undefined, sig |-> Undefined, ver |-> Undefined, rec |-> Undefined]

SignGetPublicKey ==
  /\ op = "init"
  /\ \E c \in {getPublicKey(inp.privateKey, FALSE, WINDOW_SIZE, pointPrecomputes)} :
       /\ out' = [out EXCEPT !.pub = c.res]
       /\ pointPrecomputes' = c.cache
  /\ op' = "getPublicKey"
  /\ UNCHANGED <<WINDOW_SIZE, inp, PRIVATE_STORE_DATA, now>>

SignSign ==
  /\ op = "getPublicKey"
  /\ \E c \in {sign(inp.seed, inp.msgHash, inp.privateKey, inp.opts,
                    WINDOW_SIZE, pointPrecomputes)} :
       /\ out' = [out EXCEPT !.sig = c.res]
       /\ pointPrecomputes' = c.cache
  /\ op' = "sign"
  /\ UNCHANGED <<WINDOW_SIZE, inp, PRIVATE_STORE_DATA, now>>

\* the signature and the recovery id that sign returned
SignedHex == IF inp.opts.recovered THEN out.sig.val[1] ELSE out.sig.val
SignedRecovery == out.sig.val[2]

SignVerify ==
  /\ op = "sign"
  /\ IsOk(out.sig) /\ IsOk(out.pub)
  /\ \E c \in {verify([type |-> inp.msgHash.type, val |-> SignedHex], inp.msgHash,
                      [type |-> inp.msgHash.type, val |-> out.pub.val],
                      WINDOW_SIZE, pointPrecomputes)} :
       /\ out' = [out EXCEPT !.ver = c.res]
       /\ pointPrecomputes' = c.cache
  /\ op' = "verify"
  /\ UNCHANGED <<WINDOW_SIZE, inp, PRIVATE_STORE_DATA, now>>

SignRecover ==
  /\ op = "verify"
  /\ inp.opts.recovered
  /\ \E c \in {recoverPublicKey(inp.msgHash,
                                [type |-> inp.msgHash.type, val |-> SignedHex],
                                SignedRecovery, WINDOW_SIZE, pointPrecomputes)} :
       /\ out' = [out EXCEPT !.rec = c.res]
       /\ pointPrecomputes' = c.cache
  /\ op' = "recoverPublicKey"
  /\ UNCHANGED <<WINDOW_SIZE, inp, PRIVATE_STORE_DATA, now>>

NextSign == SignGetPublicKey \/ SignSign \/ SignVerify \/ SignRecover
SpecSign == InitSign /\ [][NextSign]_vars

\* C1: verify(sign(h, d), h, getPublicKey(d)) returns true for every private
\* key d in [1, n-1] and every message hash h, with and without canonical.
C1_SignVerifyRoundTrip ==
  op = "verify" => out.ver = Ok(TRUE)

\* C2: recoverPublicKey(h, sig, recoveryId) returns getPublicKey(d) when
\* (sig, recoveryId) = sign(h, d, {recovered: true}), canonical or not.
C2_RecoveryRoundTrip ==
  op = "recoverPublicKey" => out.rec = out.pub

\* C19 as claimed: when sign returned recovery id 2 or 3 (the x of R was
\* reduced mod n), recoverPublicKey rebuilds R from x = r + n and returns
\* the signer's public key.
C19_RecoversReducedX ==
  (op = "recoverPublicKey" /\ SignedRecovery >= 2) => out.rec = out.pub

\* ---------------------------------------------------------------------
\* SpecVerify: verify on a signature object (r, s), a hash h and the public
\* key Q = qd * G.  The scenario keeps e = u1 + u2 * qd (mod n) and, when e is
\* not 0, the point e * G, which is R' = u1 * G + u2 * Q.
MaxSigS == 2
MaxVerHash == 3
MaxPubKey == 3

InitVerify ==
  /\ InitLibrary
  /\ \E r \in Scalars, s \in 1..MaxSigS, h \in 0..MaxVerHash, qd \in 1..MaxPubKey :
       inp = [r |-> r, s |-> s, h |-> h, qd |-> qd,
              Q |-> toAffine(multiplyUnsafe(JacobianPoint_BASE, qd).val).val]
  /\ op = "init"
  /\ out = Undefined

VerifyReturn(e, c) ==
  /\ out' = [res |-> c.res, e |-> e,
             R |-> IF e = 0 THEN Undefined
                   ELSE toAffine(multiplyUnsafe(JacobianPoint_BASE, e).val)]
  /\ pointPrecomputes' = c.cache
  /\ op' = "verify"
  /\ UNCHANGED <<WINDOW_SIZE, inp, PRIVATE_STORE_DATA, now>>
VerifyCall ==
  /\ op = "init"
  /\ VerifyReturn(
       mod(invert(inp.s, CURVE_n).val * (inp.h + inp.r * inp.qd), CURVE_n),
       verify([type |-> "SignResult", val |-> SignResult(inp.r, inp.s)],
              HexArg("bytes", hexToArray(pad64(inp.h))),
              [type |-> "Point", val |-> inp.Q],
              WINDOW_SIZE, pointPrecomputes))

NextVerify == VerifyCall
SpecVerify == InitVerify /\ [][NextVerify]_vars

\* C10: verify returns true if and only if R' = u1 * G + u2 * Q is not the
\* identity and R'.x mod n = r; it returns false when R' is the identity and
\* true when R'.x >= n and R'.x mod n = r.
C10_VerifyIffRx ==
  op = "verify" =>
    out.res = Ok(out.e # 0 /\ mod(out.R.val.x, CURVE_n) = inp.r)

\* ---------------------------------------------------------------------
\* Spec: the library after module load, under any order of calls of
\* Point.BASE._setWindowSize(W), utils.precompute(W), getPublicKey(d) and
\* sign(h, d, opts) with one fixed (h, d, opts).  out.first is what the first
\* sign call returned, out.last what the latest returned.
MaxLibPriv == 2
MaxLibHash == 2

Init ==
  /\ InitLibrary
  /\ \E d \in 1..MaxLibPriv, h \in 1..MaxLibHash, seed \in 0..MaxSeed,
        canonical \in BOOLEAN :
       inp = [privateKey |-> PrivKeyArg("bigint", d),
              msgHash |-> HexArg("hex", hexToArray(pad64(h))),
              seed |-> seed, opts |-> [recovered |-> TRUE, canonical |-> canonical]]
  /\ op = "init"
  /\ out = [first |-> Undefined, last |-> Undefined]

\* _setWindowSize is given windows that wNAF accepts, precompute any window
LibSetWindowSize ==
  /\ \E W \in {w \in WindowSizes : PRIME_SIZE % w = 0} :
       \E set \in {setWindowSize("BASE", W, WINDOW_SIZE, pointPrecomputes)} :
          /\ WINDOW_SIZE' = set.ws
          /\ pointPrecomputes' = set.cache
  /\ op' = "setWindowSize"
  /\ UNCHANGED <<inp, out, PRIVATE_STORE_DATA, now>>

LibPrecompute ==
  /\ \E W \in WindowSizes :
       \E pc \in {utilsPrecompute(W, Point_BASE, "BASE", WINDOW_SIZE, pointPrecomputes)} :
          /\ WINDOW_SIZE' = pc.ws
          /\ pointPrecomputes' = pc.cache
          /\ op' = IF IsOk(pc.res) THEN "precompute" ELSE "precompute failed"
  /\ UNCHANGED <<inp, out, PRIVATE_STORE_DATA, now>>

LibGetPublicKey ==
  /\ \E c \in {getPublicKey(inp.privateKey, TRUE, WINDOW_SIZE, pointPrecomputes)} :
       pointPrecomputes' = c.cache
  /\ op' = "getPublicKey"
  /\ UNCHANGED <<WINDOW_SIZE, inp, out, PRIVATE_STORE_DATA, now>>

LibSign ==
  /\ \E c \in {sign(inp.seed, inp.msgHash, inp.privateKey, inp.opts,
                    WINDOW_SIZE, pointPrecomputes)} :
       /\ out' = [first |-> IF out.first = Undefined THEN c.res ELSE out.first,
                  last |-> c.res]
       /\ pointPrecomputes' = c.cache
  /\ op' = "sign"
  /\ UNCHANGED <<WINDOW_SIZE, inp, PRIVATE_STORE_DATA, now>>

Next == LibSetWindowSize \/ LibPrecompute \/ LibGetPublicKey \/ LibSign
Spec == Init /\ [][Next]_vars

\* C3: two sign calls with the same (privateKey, msgHash, options) return the
\* same signature and recovery id, whatever ran before them and whatever the
\* state of the precompute cache.
C3_SignDeterministic ==
  op = "sign" => out.last = out.first


\* ---------------------------------------------------------------------
\* SpecScalar: Point.multiply(k) and JacobianPoint.multiplyUnsafe(k) on a
\* scalar k drawn from below 0 up to beyond 2n.
MaxBeyond == 3
ScalarInputs == (0 - MaxBeyond)..(2 * CURVE_n + MaxBeyond)

InitScalar ==
  /\ InitLibrary
  /\ inp \in [P : {Point_BASE}, obj : {"BASE"}, k : ScalarInputs]
       \cup [P : {Point_double(Point_BASE).val}, obj : {"USER"}, k : ScalarInputs]
  /\ op = "init"
  /\ out = Undefined

ScalarMultiply ==
  /\ op = "init"
  /\ MulCall(inp.P, inp.obj, inp.k, Undefined)

NextScalar == ScalarMultiply
SpecScalar == InitScalar /\ [][NextScalar]_vars

\* C11 as claimed: multiply and multiplyUnsafe reject every scalar that is
\* zero, negative or at least n, and never wrap it into range.
C11_RejectsOutOfRange ==
  op = "multiply" /\ (inp.k <= 0 \/ inp.k >= CURVE_n) =>
    IsThrow(out.ct) /\ IsThrow(out.vt)


\* ------------------------------------------------------ getSharedSecret
\* A PubKey argument is a Hex argument or [type |-> "Point", val |-> pt,
\* obj |-> o], the Point object o; "FRESH" is the object Point.fromHex made.
isPub(item) ==
  IF item.type = "bytes"
    THEN Len(item.val) = 1 + PAD_LEN \div 2 \/ Len(item.val) = 1 + PAD_LEN
  ELSE IF item.type = "hex"
    THEN Len(item.val) = 2 + PAD_LEN \/ Len(item.val) = 2 + 2 * PAD_LEN
  ELSE item.type = "Point"

\* a fresh object has no _WINDOW_SIZE and no WeakMap entry, and window 1
\* stores none
getSharedSecretEncode(privateA, isCompressed, obj, m, cache) ==
  IF IsThrow(m.res) THEN [res |-> m.res, cache |-> IF obj = "FRESH" THEN cache ELSE m.cache]
  ELSE [res |-> Ok(IF privateA.type = "hex" THEN Point_toHex(m.res.val, isCompressed)
                   ELSE Point_toRawBytes(m.res.val, isCompressed)),
        cache |-> IF obj = "FRESH" THEN cache ELSE m.cache]
getSharedSecretMultiply(privateA, isCompressed, b, obj, key, ws, cache) ==
  IF IsThrow(key) THEN [res |-> key, cache |-> cache]
  ELSE getSharedSecretEncode(privateA, isCompressed, obj,
         Point_multiply(b, IF obj = "FRESH" THEN "USER" ELSE obj, key.val,
                        IF obj = "FRESH" THEN [ws EXCEPT !["USER"] = 0] ELSE ws,
                        IF obj = "FRESH" THEN [cache EXCEPT !["USER"] = <<>>] ELSE cache),
         cache)
getSharedSecretPoint(privateA, isCompressed, b, obj, ws, cache) ==
  IF IsThrow(b) THEN [res |-> b, cache |-> cache]
  ELSE IF IsThrow(assertValidity(b.val))
    THEN [res |-> assertValidity(b.val), cache |-> cache]
  ELSE getSharedSecretMultiply(privateA, isCompressed, b.val, obj,
                               normalizePrivateKey(privateA), ws, cache)
getSharedSecretKeys(privateA, publicB, isCompressed, ws, cache) ==
  IF ~isPub(publicB) THEN [res |-> Throw("Received invalid keys"), cache |-> cache]
  ELSE getSharedSecretPoint(privateA, isCompressed, normalizePublicKey(publicB),
                            IF publicB.type = "Point" THEN publicB.obj ELSE "FRESH",
                            ws, cache)
\* getSharedSecret(privateA, publicB, isCompressed)
getSharedSecret(privateA, publicB, isCompressed, ws, cache) ==
  IF isPub(privateA) /\ ~isPub(publicB)
    THEN getSharedSecretKeys(publicB, privateA, isCompressed, ws, cache)
    ELSE getSharedSecretKeys(privateA, publicB, isCompressed, ws, cache)

\* ---------------------------------------------------------------------
\* SpecPrivKey: getPublicKey(d), sign(h, d) or getSharedSecret(d, Q) on a
\* private key d from 0 to beyond n, given as bigint, hex string or bytes.
\* Q is the encoded point 2 * G.
PrivKeyInputs == (0..MaxPriv) \cup ((CURVE_n - 1)..(CURVE_n + MaxBeyond))

InitPrivKey ==
  /\ InitLibrary
  /\ \E type \in KeyTypes, d \in PrivKeyInputs, h \in 1..MaxLibHash,
        seed \in 0..MaxSeed :
       inp = [d |-> d, privateKey |-> PrivKeyArg(type, d),
              msgHash |-> HexArg("hex", hexToArray(pad64(h))), seed |-> seed,
              publicKey |-> HexArg("hex",
                 hexToArray(Point_toHex(Point_double(Point_BASE).val, TRUE)))]
  /\ op = "init"
  /\ out = Undefined

PrivKeyReturn(name, c) ==
  /\ out' = c.res
  /\ pointPrecomputes' = c.cache
  /\ op' = name
  /\ UNCHANGED <<WINDOW_SIZE, inp, PRIVATE_STORE_DATA, now>>

PrivGetPublicKey ==
  /\ op = "init"
  /\ PrivKeyReturn("getPublicKey",
       getPublicKey(inp.privateKey, FALSE, WINDOW_SIZE, pointPrecomputes))
PrivSign ==
  /\ op = "init"
  /\ PrivKeyReturn("sign",
       sign(inp.seed, inp.msgHash, inp.privateKey,
            [recovered |-> FALSE, canonical |-> FALSE], WINDOW_SIZE, pointPrecomputes))
PrivGetSharedSecret ==
  /\ op = "init"
  /\ PrivKeyReturn("getSharedSecret",
       getSharedSecret(inp.privateKey, inp.publicKey, TRUE,
                       WINDOW_SIZE, pointPrecomputes))

NextPrivKey == PrivGetPublicKey \/ PrivSign \/ PrivGetSharedSecret
SpecPrivKey == InitPrivKey /\ [][NextPrivKey]_vars

\* C12 as claimed: sign, getPublicKey and getSharedSecret produce no result
\* for a private key that is 0 or at least n, in any representation.
C12_RejectsInvalidPrivateKey ==
  op # "init" /\ (inp.d = 0 \/ inp.d >= CURVE_n) => IsThrow(out)


\* ---------------------------------------------------------------------
\* SpecCache: any order of _setWindowSize(W), utils.precompute(W, P) and
\* multiply(k) on Point.BASE and on one user Point object, with windows that
\* wNAF accepts.  out keeps what the last multiply returned next to what the
\* same call returns with window size 1 and an empty WeakMap.
MaxCacheScalar == 3
CacheWindows == {w \in WindowSizes : PRIME_SIZE % w = 0}
CacheScalars == (1..MaxCacheScalar) \cup {CURVE_n - 1}
ObjPoint(o) == IF o = "BASE" THEN Point_BASE ELSE inp.P

InitCache ==
  /\ InitLibrary
  /\ inp \in [P : {Point_BASE, Point_double(Point_BASE).val}]
  /\ op = "init"
  /\ out = Undefined

CacheSetWindowSize ==
  /\ \E o \in Objects, W \in CacheWindows :
       \E set \in {setWindowSize(o, W, WINDOW_SIZE, pointPrecomputes)} :
          /\ WINDOW_SIZE' = set.ws
          /\ pointPrecomputes' = set.cache
  /\ op' = "setWindowSize"
  /\ UNCHANGED <<inp, out, PRIVATE_STORE_DATA, now>>

CachePrecompute ==
  /\ \E o \in Objects, W \in CacheWindows :
       \E pc \in {utilsPrecompute(W, ObjPoint(o), o, WINDOW_SIZE, pointPrecomputes)} :
          /\ WINDOW_SIZE' = pc.ws
          /\ pointPrecomputes' = pc.cache
          /\ out' = [obj |-> o, res |-> pc.res, ref |-> Ok(ObjPoint(o))]
  /\ op' = "precompute"
  /\ UNCHANGED <<inp, PRIVATE_STORE_DATA, now>>

CacheMultiply ==
  /\ \E o \in Objects, k \in CacheScalars :
       \E m \in {Point_multiply(ObjPoint(o), o, k, WINDOW_SIZE, pointPrecomputes)} :
          /\ pointPrecomputes' = m.cache
          /\ out' = [obj |-> o, res |-> m.res,
                     ref |-> Point_multiply(ObjPoint(o), o, k,
                                            [x \in Objects |-> 1],
                                            [x \in Objects |-> <<>>]).res]
  /\ op' = "multiply"
  /\ UNCHANGED <<WINDOW_SIZE, inp, PRIVATE_STORE_DATA, now>>

NextCache == CacheSetWindowSize \/ CachePrecompute \/ CacheMultiply
SpecCache == InitCache /\ [][NextCache]_vars

\* the table precomputeWindow and normalizeZ build for object o now
TableOf(o) ==
  normalizeZ(precomputeWindow(fromAffine(ObjPoint(o)), WINDOW_SIZE[o])).val

\* C13: with windows dividing PRIME_SIZE, multiply returns what it returns
\* with window size 1 and an empty cache, and a cached table is the table of
\* the point's current window size.
C13_CacheHasNoEffect ==
  /\ op \in {"multiply", "precompute"} => IsOk(out.res) /\ out.res = out.ref
  /\ \A o \in Objects : pointPrecomputes[o] # <<>> => pointPrecomputes[o] = TableOf(o)
C13_Witness ==
  /\ op = "multiply" /\ out.obj = "USER" /\ IsOk(out.res) /\ out.res = out.ref
  /\ WINDOW_SIZE["USER"] = 4 /\ pointPrecomputes["USER"] # <<>>
  /\ WINDOW_SIZE["BASE"] = 1 /\ pointPrecomputes["BASE"] = <<>>


\* ---------------------------------------------------------------------
\* SpecFail: the public operations in any order, each on arguments that
\* make it succeed and on arguments that make it raise.  out.res is what the
\* last call returned.
FailScalars == {0, 1}
FailKeys == 0..MaxLibPriv

InitFail ==
  /\ InitLibrary
  /\ inp \in [msgHash : {HexArg("hex", hexToArray(pad64(h))) : h \in 0..MaxLibHash},
              seed : 0..MaxSeed]
  /\ op = "init"
  /\ out = [res |-> Undefined]

FailReturn(name, c) ==
  /\ out' = [res |-> c.res]
  /\ pointPrecomputes' = c.cache
  /\ op' = name
  /\ UNCHANGED <<WINDOW_SIZE, inp, PRIVATE_STORE_DATA, now>>

FailMultiply ==
  \E k \in FailScalars :
    FailReturn("multiply",
      Point_multiply(Point_BASE, "BASE", k, WINDOW_SIZE, pointPrecomputes))

FailPrecompute ==
  /\ \E W \in WindowSizes :
       \E pc \in {utilsPrecompute(W, Point_BASE, "BASE", WINDOW_SIZE, pointPrecomputes)} :
          /\ WINDOW_SIZE' = pc.ws
          /\ pointPrecomputes' = pc.cache
          /\ out' = [res |-> pc.res]
  /\ op' = "precompute"
  /\ UNCHANGED <<inp, PRIVATE_STORE_DATA, now>>

FailSign ==
  \E d \in FailKeys :
    FailReturn("sign",
      sign(inp.seed, inp.msgHash, PrivKeyArg("bigint", d),
           [recovered |-> TRUE, canonical |-> FALSE], WINDOW_SIZE, pointPrecomputes))

\* (r, s) = (n - 1, 1) with h = 1 and Q = G gives R' = identity
FailVerify ==
  \E r \in {1, CURVE_n - 1} :
    FailReturn("verify",
      verify([type |-> "SignResult", val |-> SignResult(r, 1)],
             HexArg("hex", hexToArray(pad64(1))),
             [type |-> "Point", val |-> Point_BASE],
             WINDOW_SIZE, pointPrecomputes))

FailRecover ==
  \E recovery \in 0..1 :
    FailReturn("recoverPublicKey",
      recoverPublicKey(inp.msgHash,
                       [type |-> "SignResult", val |-> SignResult(Point_BASE.x, 1)],
                       recovery, WINDOW_SIZE, pointPrecomputes))

FailGetSharedSecret ==
  \E d \in FailKeys :
    FailReturn("getSharedSecret",
      getSharedSecret(PrivKeyArg("bigint", d),
                      [type |-> "Point", val |-> Point_BASE, obj |-> "BASE"],
                      FALSE, WINDOW_SIZE, pointPrecomputes))

NextFail ==
  \/ FailMultiply \/ FailPrecompute \/ FailSign
  \/ FailVerify \/ FailRecover \/ FailGetSharedSecret
SpecFail == InitFail /\ [][NextFail]_vars

\* C14 as claimed: a public operation that raises an error leaves the
\* precompute cache and every window size as they were before the call.
C14_NoPartialSideEffects ==
  [][IsThrow(out'.res) => UNCHANGED <<WINDOW_SIZE, pointPrecomputes>>]_vars


\* ---------------------------------------------------------------------
\* SpecNonce: the loop of getQRSrfc6979, one iteration per step, where every
\* call of utils.hmacSha256 may return any of the digests HmacOutputs.  out.i
\* is the loop counter, out.T the last candidate and out.res what the
\* function returned (Undefined while it runs).
MaxCandidate == 2
HmacOutputs ==
  (0..MaxCandidate) \cup {CURVE_n - 1, CURVE_n, Pow2(PRIME_SIZE) - 1}
\* with d = 1 and the hash n - Gx the candidate k = 1 gives s = 0
NonceHashes == {CURVE_n - CURVE_Gx}
NonceContext ==
  [seed |-> 0, priv |-> inp.priv, ws |-> WINDOW_SIZE,
   h1n |-> getQRSh1n(HexNumber(inp.msgHash).val)]

InitNonce ==
  /\ InitLibrary
  /\ inp \in [msgHash : {HexArg("bytes", hexToArray(pad64(h))) : h \in NonceHashes},
              priv : {1}]
  /\ op = "init"
  /\ out = [i |-> 0, T |-> 0, res |-> Undefined]

\* steps B to G: four digests that only feed later calls of hmacSha256
NonceBegin ==
  /\ op = "init"
  /\ op' = "loop"
  /\ UNCHANGED <<WINDOW_SIZE, pointPrecomputes, inp, out, PRIVATE_STORE_DATA, now>>

NonceReturn(T, qrs) ==
  /\ pointPrecomputes' = qrs.cache
  /\ out' = [i |-> IF qrs.res = Undefined THEN out.i + 1 ELSE out.i,
             T |-> T, res |-> qrs.res]
  /\ op' = IF qrs.res = Undefined THEN "loop" ELSE "returned"
  /\ UNCHANGED <<WINDOW_SIZE, inp, PRIVATE_STORE_DATA, now>>
\* one iteration: v = hmac(k, v), T = bytesToNumber(v), the test, and on
\* failure the two digests that advance k and v
NonceIter ==
  /\ op = "loop"
  /\ out.i < MAX_TRIES
  /\ \E T \in HmacOutputs :
       NonceReturn(T, getQRSCandidate(NonceContext, T, pointPrecomputes))

NonceExhausted ==
  /\ op = "loop"
  /\ ~(out.i < MAX_TRIES)
  /\ out' = [out EXCEPT !.res =
               Throw("secp256k1: Tried 1,000 k values for sign(), all were invalid")]
  /\ op' = "thrown"
  /\ UNCHANGED <<WINDOW_SIZE, pointPrecomputes, inp, PRIVATE_STORE_DATA, now>>

NextNonce == NonceBegin \/ NonceIter \/ NonceExhausted
SpecNonce == InitNonce /\ [][NextNonce]_vars
SpecNonceFair == SpecNonce /\ WF_vars(NextNonce)

NonceSearchInv ==
  /\ out.i <= MAX_TRIES
  /\ IsOk(out.res) =>
       /\ 0 < out.T /\ out.T < CURVE_n
       /\ out.res.val.r # 0 /\ out.res.val.s # 0
       /\ Ok(out.res.val.q) = toAffine(multiplyUnsafe(JacobianPoint_BASE, out.T).val)
       /\ out.res.val.r = out.res.val.q.x % CURVE_n
  /\ IsThrow(out.res) =>
       /\ out.i = MAX_TRIES
       /\ out.res = Throw("secp256k1: Tried 1,000 k values for sign(), all were invalid")
  /\ out.res = Undefined => op \in {"init", "loop"}

\* C15: whatever HMAC returns, getQRSrfc6979 ends, either returning (R, r, s)
\* of a candidate k with 0 < k < n, r # 0 and s # 0, or raising the
\* exhaustion error after exactly MAX_TRIES rejected candidates.
C15_NonceSearchTerminates ==
  []NonceSearchInv /\ <>(out.res # Undefined)
C15_Witness ==
  /\ op = "thrown" /\ out.i = MAX_TRIES /\ IsThrow(out.res)


\* ---------------------------------------------------------------------
\* src/src/handler.ts, lines 1 to 237: the JSON-RPC service.  A string is
\* the sequence of its characters; the addresses of the service are scaled
\* to "0x" and two hex digits.  A request parameter is [type, val], type
\* being what typeof returns.
ADDRESS_LENGTH == 4
SIGNATURE_LENGTH == 132
namespace == <<"p", "l", "a", "n", "e", "t", "-", "w", "a", "r", "s">>

Str(chars) == [type |-> "string", val |-> chars]
Digits == <<"0", "1", "2", "3", "4", "5", "6", "7", "8", "9">>
IsDigit(c) == \E i \in 1..10 : Digits[i] = c
DigitValue(c) == (CHOOSE i \in 1..10 : Digits[i] = c) - 1

\* String.prototype.toLowerCase on the letters of a hex string
toLowerCaseChar(c) ==
  CASE c = "A" -> "a" [] c = "B" -> "b" [] c = "C" -> "c"
    [] c = "D" -> "d" [] c = "E" -> "e" [] c = "F" -> "f"
    [] OTHER -> c
toLowerCase(s) == [i \in 1..Len(s) |-> toLowerCaseChar(s[i])]
\* s.startsWith('0x')
startsWith0x(s) == Len(s) >= 2 /\ s[1] = "0" /\ s[2] = "x"

\* BigInt.prototype.toString: decimal digits, "-" for a negative value
RECURSIVE BigInt_digits(_)
BigInt_digits(n) ==
  IF n < 10 THEN <<Digits[n + 1]>>
  ELSE Append(BigInt_digits(n \div 10), Digits[(n % 10) + 1])
BigInt_toString(n) ==
  IF n < 0 THEN <<"-">> \o BigInt_digits(0 - n) ELSE BigInt_digits(n)
\* BigInt(string): decimal digits with an optional sign, the empty string is
\* 0n, anything else a SyntaxError
RECURSIVE BigInt_value(_)
BigInt_value(s) ==
  IF s = <<>> THEN 0
  ELSE 10 * BigInt_value(SubSeq(s, 1, Len(s) - 1)) + DigitValue(s[Len(s)])
BigInt_unsigned(s) ==
  IF s # <<>> /\ \A i \in 1..Len(s) : IsDigit(s[i])
  THEN Ok(BigInt_value(s))
  ELSE Throw("SyntaxError: Cannot convert to a BigInt")
BigInt_negate(r) == IF IsOk(r) THEN Ok(0 - r.val) ELSE r
BigInt(s) ==
  IF s = <<>> THEN Ok(0)
  ELSE IF s[1] = "-" THEN BigInt_negate(BigInt_unsigned(Tail(s)))
  ELSE IF s[1] = "+" THEN BigInt_unsigned(Tail(s))
  ELSE BigInt_unsigned(s)

\* PRIVATE_STORE.put / PRIVATE_STORE.get of the in-memory store
PRIVATE_STORE_put(store, key, value) ==
  [k \in DOMAIN store \cup {key} |-> IF k = key THEN value ELSE store[k]]
PRIVATE_STORE_get(store, key) ==
  IF key \in DOMAIN store THEN store[key] ELSE Undefined
\* JSON.stringify({data, timestamp}) and JSON.parse of it: the text holds
\* the two members in this order
JSON_stringify(obj) == [json |-> <<"data", obj.data, "timestamp", obj.timestamp>>]
JSON_parse(str) == [data |-> str.json[2], timestamp |-> str.json[4]]
setData(store, key, data, timestamp) ==
  PRIVATE_STORE_put(store, key,
    JSON_stringify([data |-> data, timestamp |-> BigInt_toString(timestamp)]))
getData_parse(str) == IF str = Undefined THEN Undefined ELSE JSON_parse(str)
getData(store, key) == getData_parse(PRIVATE_STORE_get(store, key))


\* parseReadRequest(jsonRequest, numParams); numParams = 0 stands for the
\* call without it
parseReadRequest(jsonRequest, numParams) ==
  LET params == jsonRequest.params
      address == params[1]
      ns == params[2]
  IN IF numParams # 0 /\ Len(params) # numParams
     THEN Throw("invalid number of parameters")
     ELSE IF address.type # "string" THEN Throw("invalid address: not a string")
     ELSE IF ~startsWith0x(address.val) THEN Throw("invalid address: not 0x prefix")
     ELSE IF Len(address.val) # ADDRESS_LENGTH THEN Throw("invalid address length")
     ELSE IF ns.type # "string" THEN Throw("invalid namespace: not a string")
     ELSE IF Len(ns.val) = 0 THEN Throw("invalid namespace length")
     ELSE Ok([address |-> address.val, namespace |-> ns.val])

\* parseWriteRequest(jsonRequest).  The signature string is the record of
\* what the code reads of it: whether it starts with '0x', its length, and
\* the signature proper.
parseWriteRequest_rest(jsonRequest, read, timestamp) ==
  LET data == jsonRequest.params[4]
      signature == jsonRequest.params[5]
  IN IF IsThrow(timestamp) THEN timestamp
     ELSE IF data.type # "string" THEN Throw("invalid data: not a string")
     ELSE IF signature.type # "string" THEN Throw("invalid signature: not a string")
     ELSE IF ~signature.val.startsWith0x THEN Throw("invalid signature: not 0x prefix")
     ELSE IF signature.val.length # SIGNATURE_LENGTH THEN Throw("invalid signature length")
     ELSE Ok([namespace |-> read.val.namespace, address |-> read.val.address,
              signature |-> signature.val, data |-> data.val,
              timestamp |-> timestamp.val])
parseWriteRequest_timestamp(jsonRequest, read) ==
  LET timestampMs == jsonRequest.params[3]
  IN IF IsThrow(read) THEN read
     ELSE IF timestampMs.type # "string" THEN Throw("invalid timestampMs: not a string")
     ELSE parseWriteRequest_rest(jsonRequest, read, BigInt(timestampMs.val))
parseWriteRequest(jsonRequest) ==
  IF Len(jsonRequest.params) # 5
  THEN Throw("invalid number of parameters, expected 5")
  ELSE parseWriteRequest_timestamp(jsonRequest, parseReadRequest(jsonRequest, 0))

\* the values of the members result and error
Null == [tag |-> "null"]
Value(v) == [tag |-> "value", val |-> v]
ErrorOf(message) == [message |-> message]

\* wrapRequest(jsonRequest, data, error, usage): the members of the JSON
\* text; usage = "none" stands for the call without it
wrapRequest(jsonRequest, data, error, usage) ==
  [jsonrpc |-> "2.0", id |-> jsonRequest.id,
   result |-> IF data = Undefined THEN Null ELSE data,
   error |-> IF usage # "none" /\ error # Undefined
             THEN [message |-> error.message, usage |-> usage]
             ELSE error]

\* handleGetString(jsonRequest)
handleGetString_data_whole(jsonRequest, data) ==
  wrapRequest(jsonRequest, IF data # Undefined THEN Value(data) ELSE Null,
              Undefined, "none")
handleGetString_data(jsonRequest, data) ==
  wrapRequest(jsonRequest,
              IF data # Undefined THEN Value(data.data) ELSE Null,
              Undefined, "none")
handleGetString_request(jsonRequest, request, store) ==
  IF IsThrow(request)
  THEN wrapRequest(jsonRequest, Null, ErrorOf(request.err), "wallet_getString")
  ELSE IF request.val.namespace # namespace
  THEN wrapRequest(jsonRequest, Null, ErrorOf("namespace not supported"), "none")
  ELSE handleGetString_data(jsonRequest,
                            getData(store, toLowerCase(request.val.address)))
handleGetString(jsonRequest, store) ==
  handleGetString_request(jsonRequest, parseReadRequest(jsonRequest, 2), store)


\* hash256(dataAsString): "0x" and the hex digits of the SHA-256 digest; the
\* digest of a string stands for that string alone (no two strings collide)
hash256(dataAsString) == [prefix |-> "0x", sha256 |-> dataAsString]

\* The wallets of the scenario and their addresses as computeAddress prints
\* them (mixed case).  A signature proper is "malformed" or the pair of the
\* wallet that signed and the digest it signed.
Wallets == {1, 2}
computeAddress(w) ==
  IF w = 1 THEN <<"0", "x", "A", "b">> ELSE <<"0", "x", "C", "d">>
StrangerAddress == <<"0", "x", "E", "f">>
\* recoverAddress(digest, signature) of @ethersproject/transactions: throws
\* on a signature it cannot split, returns the signer's address for the
\* digest that was signed, and the address of a key nobody chose for any
\* other digest
recoverAddress(msgHash, signature) ==
  IF signature.sig.kind = "malformed" THEN Throw("invalid signature")
  ELSE IF signature.sig.digest = msgHash THEN Ok(computeAddress(signature.sig.signer))
  ELSE Ok(StrangerAddress)

\* isAuthorized(address, msgHash, signature)
isAuthorized_anyOwner(address, addressFromSignature) ==
  IsOk(addressFromSignature)
isAuthorized_compare(address, addressFromSignature) ==
  IF IsThrow(addressFromSignature) THEN FALSE
  ELSE toLowerCase(address) = toLowerCase(addressFromSignature.val)
isAuthorized(address, msgHash, signature) ==
  isAuthorized_compare(address, recoverAddress(msgHash, signature))

\* "put:" + request.namespace + ":" + request.timestamp + ":" + request.data
putMessage(request) ==
  <<"p", "u", "t", ":">> \o request.namespace \o <<":">>
    \o BigInt_toString(request.timestamp) \o <<":">> \o request.data

\* handlePutString(jsonRequest): the response and the store after it
handlePutString_older_strict(request, currentData) ==
  currentData # Undefined /\ request.timestamp < BigInt(currentData.timestamp).val
handlePutString_older(request, currentData) ==
  currentData # Undefined /\ request.timestamp <= BigInt(currentData.timestamp).val
handlePutString_store_anyTime(jsonRequest, request, currentData, store, clock) ==
  IF handlePutString_older(request, currentData)
  THEN [response |-> wrapRequest(jsonRequest, Null,
                       ErrorOf("cannot override with older/same timestamp"), "none"),
        store |-> store]
  ELSE [response |-> wrapRequest(jsonRequest, Value(TRUE), Undefined, "none"),
        store |-> setData(store, toLowerCase(request.address), request.data,
                          request.timestamp)]
handlePutString_store(jsonRequest, request, currentData, store, clock) ==
  IF handlePutString_older(request, currentData)
  THEN [response |-> wrapRequest(jsonRequest, Null,
                       ErrorOf("cannot override with older/same timestamp"), "none"),
        store |-> store]
  ELSE IF request.timestamp > clock
  THEN [response |-> wrapRequest(jsonRequest, Null,
                       ErrorOf("cannot use future timestamp"), "none"),
        store |-> store]
  ELSE [response |-> wrapRequest(jsonRequest, Value(TRUE), Undefined, "none"),
        store |-> setData(store, toLowerCase(request.address), request.data,
                          request.timestamp)]
handlePutString_authorized(jsonRequest, request, authorized, store, clock) ==
  IF ~authorized
  THEN [response |-> wrapRequest(jsonRequest, Null, ErrorOf("invalid signature"), "none"),
        store |-> store]
  ELSE handlePutString_store(jsonRequest, request,
         getData(store, toLowerCase(request.address)), store, clock)
handlePutString_request(jsonRequest, request, store, clock) ==
  IF IsThrow(request)
  THEN [response |-> wrapRequest(jsonRequest, Null, ErrorOf(request.err),
                                 "wallet_putString"),
        store |-> store]
  ELSE IF request.val.namespace # namespace
  THEN [response |-> wrapRequest(jsonRequest, Null,
                       ErrorOf("namespace not supported"), "none"),
        store |-> store]
  ELSE handlePutString_authorized(jsonRequest, request.val,
         isAuthorized(request.val.address, hash256(putMessage(request.val)),
                      request.val.signature),
         store, clock)
handlePutString(jsonRequest, store, clock) ==
  handlePutString_request(jsonRequest, parseWriteRequest(jsonRequest), store, clock)

\* handleRPC(request) for a POST request with a JSON body
handleRPC(jsonRequest, store, clock) ==
  IF jsonRequest.method = "wallet_getString"
  THEN [response |-> handleGetString(jsonRequest, store), store |-> store]
  ELSE IF jsonRequest.method = "wallet_putString"
  THEN handlePutString(jsonRequest, store, clock)
  ELSE [response |-> wrapRequest(jsonRequest, Null, ErrorOf("not supported"), "all"),
        store |-> store]


\* ---------------------------------------------------------------------
\* SpecHandler: requests are handled one after the other while the clock
\* advances.  inp is the JSON request, op its method and out the members
\* of the JSON response.
MaxClock == 2
Counters == 1..MaxClock
DataStrings == {<<>>, <<"a">>}
\* the signatures a wallet can make: over the message of any counter and data
SignedMessages ==
  {hash256(putMessage([namespace |-> namespace, timestamp |-> c, data |-> d])) :
     c \in Counters, d \in DataStrings}
Signatures ==
  {[kind |-> "signed", signer |-> w, digest |-> h] : w \in Wallets, h \in SignedMessages}
    \cup {[kind |-> "malformed"]}
SignatureString(sig) ==
  Str([startsWith0x |-> TRUE, length |-> SIGNATURE_LENGTH, sig |-> sig])
PutRequest(address, ns, timestampMs, data, signature) ==
  [method |-> "wallet_putString", id |-> 1,
   params |-> <<address, ns, timestampMs, data, signature>>]
PutAddresses == {toLowerCase(computeAddress(1)), computeAddress(2)}
WellFormedPuts ==
  {PutRequest(Str(a), Str(namespace), Str(BigInt_toString(c)), Str(d), SignatureString(s)) :
     a \in PutAddresses, c \in Counters, d \in DataStrings, s \in Signatures}
\* a valid put of wallet 2 with the counter 1 written as timestampMs
CounterPut(timestampMs) ==
  PutRequest(Str(computeAddress(2)), Str(namespace), timestampMs, Str(<<"a">>),
    SignatureString([kind |-> "signed", signer |-> 2,
      digest |-> hash256(putMessage([namespace |-> namespace, timestamp |-> 1,
                                     data |-> <<"a">>]))]))
\* the counter 1 in other spellings
OddCounterPuts == {CounterPut(Str(<<"0", "1">>)), CounterPut(Str(<<"+", "1">>))}
\* requests that differ from CounterPut("1") in one parameter
MalformedPuts ==
  LET r == CounterPut(Str(<<"1">>))
      number == [type |-> "number", num |-> 0]
      With(i, v) == [r EXCEPT !.params[i] = v]
  IN {With(1, Str(<<"C", "d">>)),
      With(1, Str(<<"0", "x", "C", "d", "d">>)),
      With(1, number),
      With(2, Str(<<"x">>)),
      With(2, Str(<<>>)),
      With(2, number),
      With(3, Str(<<"z">>)),
      With(3, number),
      With(4, number),
      With(5, number),
      With(5, Str([r.params[5].val EXCEPT !.startsWith0x = FALSE])),
      With(5, Str([r.params[5].val EXCEPT !.length = SIGNATURE_LENGTH - 2])),
      [r EXCEPT !.params = SubSeq(r.params, 1, 4)]}
\* the puts that parseWriteRequest accepts in the supported namespace
ParsedPuts == WellFormedPuts \cup OddCounterPuts
PutRequests == ParsedPuts \cup MalformedPuts
GetAddresses ==
  {computeAddress(w) : w \in Wallets} \cup {toLowerCase(computeAddress(w)) : w \in Wallets}
GetRequests ==
  {[method |-> "wallet_getString", id |-> 2, params |-> <<Str(a), Str(ns)>>] :
     a \in GetAddresses, ns \in {namespace, <<"x">>}}
    \cup {[method |-> "wallet_getString", id |-> 2,
           params |-> <<Str(computeAddress(1))>>]}
OtherRequests ==
  {[method |-> "wallet_deleteString", id |-> 3,
    params |-> <<Str(computeAddress(1)), Str(namespace)>>]}

InitHandler ==
  /\ InitLibrary
  /\ inp = [method |-> "none", id |-> 0, params |-> <<>>]
  /\ op = "init"
  /\ out = wrapRequest(inp, Undefined, Undefined, "none")

RpcReturn(jsonRequest, r) ==
  /\ inp' = jsonRequest
  /\ op' = jsonRequest.method
  /\ out' = r.response
  /\ PRIVATE_STORE_DATA' = r.store
  /\ UNCHANGED <<WINDOW_SIZE, pointPrecomputes, now>>
RpcPutString ==
  \E jsonRequest \in PutRequests :
    RpcReturn(jsonRequest, handleRPC(jsonRequest, PRIVATE_STORE_DATA, now))
RpcGetString ==
  \E jsonRequest \in GetRequests :
    RpcReturn(jsonRequest, handleRPC(jsonRequest, PRIVATE_STORE_DATA, now))
RpcUnsupported ==
  \E jsonRequest \in OtherRequests :
    RpcReturn(jsonRequest, handleRPC(jsonRequest, PRIVATE_STORE_DATA, now))
\* time passes between two requests
Tick ==
  /\ now < MaxClock
  /\ now' = now + 1
  /\ UNCHANGED <<WINDOW_SIZE, pointPrecomputes, PRIVATE_STORE_DATA, inp, op, out>>

NextHandler == RpcPutString \/ RpcGetString \/ RpcUnsupported \/ Tick
SpecHandler == InitHandler /\ [][NextHandler]_vars


\* the step handles the request inp' (the clock stands still)
Handled == now' = now
\* the members of a well-formed wallet_putString request
PutAddress(jsonRequest) == jsonRequest.params[1].val
PutTimestamp(jsonRequest) == BigInt(jsonRequest.params[3].val).val
PutData(jsonRequest) == jsonRequest.params[4].val
PutSignature(jsonRequest) == jsonRequest.params[5].val
\* the signature of the request recovers to its address over the hash of
\* "put:<namespace>:<counter>:<data>"
SignedByOwner(jsonRequest) ==
  LET message == <<"p", "u", "t", ":">> \o jsonRequest.params[2].val \o <<":">>
                   \o BigInt_toString(PutTimestamp(jsonRequest)) \o <<":">>
                   \o PutData(jsonRequest)
      recovered == recoverAddress(hash256(message), PutSignature(jsonRequest))
  IN /\ IsOk(recovered)
     /\ toLowerCase(recovered.val) = toLowerCase(PutAddress(jsonRequest))
\* the data and the timestamp stored for a key
StoredData(store, key) == JSON_parse(store[key]).data
StoredTimestamp(store, key) == BigInt(JSON_parse(store[key]).timestamp).val
\* the value of key differs between the two stores
Written(before, after, key) ==
  key \in DOMAIN after /\ (key \in DOMAIN before => after[key] # before[key])

\* C16: the store changes only by a wallet_putString whose signature
\* recovers to the address written, over the hash of
\* "put:<namespace>:<counter>:<data>", and then holds the data of that
\* request; a put with an invalid signature returns result null and leaves
\* the store unchanged.
C16_OnlyOwnerWrites ==
  [][/\ DOMAIN PRIVATE_STORE_DATA \subseteq DOMAIN PRIVATE_STORE_DATA'
     /\ \A key \in DOMAIN PRIVATE_STORE_DATA' :
          Written(PRIVATE_STORE_DATA, PRIVATE_STORE_DATA', key) =>
            /\ inp' \in ParsedPuts
            /\ key = toLowerCase(PutAddress(inp'))
            /\ SignedByOwner(inp')
            /\ StoredData(PRIVATE_STORE_DATA', key) = PutData(inp')
            /\ StoredTimestamp(PRIVATE_STORE_DATA', key) = PutTimestamp(inp')
     /\ (Handled /\ inp' \in ParsedPuts /\ ~SignedByOwner(inp')) =>
          /\ out'.result = Null
          /\ PRIVATE_STORE_DATA' = PRIVATE_STORE_DATA]_vars
\* a put signed by the other wallet was refused while the address holds data
C16_Witness ==
  /\ inp \in ParsedPuts
  /\ ~SignedByOwner(inp)
  /\ PutSignature(inp).sig.kind = "signed"
  /\ out.error = ErrorOf("invalid signature")
  /\ toLowerCase(PutAddress(inp)) \in DOMAIN PRIVATE_STORE_DATA


\* the wallet_getString requests for the address of a put, in either case,
\* in the supported namespace
GetsFor(address) ==
  {g \in GetRequests : /\ Len(g.params) = 2
                       /\ g.params[2].val = namespace
                       /\ toLowerCase(g.params[1].val) = toLowerCase(address)}
Succeeded(response) == response.result = Value(TRUE) /\ response.error = Undefined

C18_CounterStrictlyIncreases ==
  [][/\ \A key \in DOMAIN PRIVATE_STORE_DATA :
          /\ key \in DOMAIN PRIVATE_STORE_DATA'
          /\ Written(PRIVATE_STORE_DATA, PRIVATE_STORE_DATA', key) =>
               StoredTimestamp(PRIVATE_STORE_DATA', key)
                 > StoredTimestamp(PRIVATE_STORE_DATA, key)
     /\ (/\ Handled
         /\ inp' \in ParsedPuts
         /\ toLowerCase(PutAddress(inp')) \in DOMAIN PRIVATE_STORE_DATA
         /\ PutTimestamp(inp')
              <= StoredTimestamp(PRIVATE_STORE_DATA, toLowerCase(PutAddress(inp')))) =>
          /\ out'.result = Null
          /\ PRIVATE_STORE_DATA' = PRIVATE_STORE_DATA]_vars
\* the owner's put with the counter already stored was refused
C18_Witness ==
  /\ inp \in ParsedPuts
  /\ SignedByOwner(inp)
  /\ out.error = ErrorOf("cannot override with older/same timestamp")
  /\ StoredTimestamp(PRIVATE_STORE_DATA, toLowerCase(PutAddress(inp))) = PutTimestamp(inp)


\* ---------------------------------------------------------------------
\* SpecCanon: the same hash is signed with the same key without and with
\* {canonical: true}, both with {recovered: true}.  out.qrs is what
\* getQRSrfc6979 computed, out.plain and out.canon what sign returned.
InitCanon ==
  /\ InitLibrary
  /\ \E type \in {"hex", "bytes"}, d \in SignKeys, h \in SignHashes, seed \in 0..MaxSeed :
       inp = [d |-> d, privateKey |-> PrivKeyArg(type, d),
              msgHash |-> HexArg(type, hexToArray(pad64(h))), seed |-> seed]
  /\ op = "init"
  /\ out = [qrs |-> Undefined, plain |-> Undefined, canon |-> Undefined]

CanonReturn(name, field, c) ==
  /\ out' = [out EXCEPT ![field] = c.res]
  /\ pointPrecomputes' = c.cache
  /\ op' = name
  /\ UNCHANGED <<WINDOW_SIZE, inp, PRIVATE_STORE_DATA, now>>
CanonNonce ==
  /\ op = "init"
  /\ CanonReturn("getQRSrfc6979", "qrs",
       getQRSrfc6979(inp.seed, inp.msgHash, inp.d, WINDOW_SIZE, pointPrecomputes))
CanonSign ==
  /\ op = "getQRSrfc6979"
  /\ CanonReturn("sign", "plain",
       sign(inp.seed, inp.msgHash, inp.privateKey,
            [recovered |-> TRUE, canonical |-> FALSE], WINDOW_SIZE, pointPrecomputes))
CanonSignCanonical ==
  /\ op = "sign"
  /\ CanonReturn("signCanonical", "canon",
       sign(inp.seed, inp.msgHash, inp.privateKey,
            [recovered |-> TRUE, canonical |-> TRUE], WINDOW_SIZE, pointPrecomputes))

NextCanon == CanonNonce \/ CanonSign \/ CanonSignCanonical
SpecCanon == InitCanon /\ [][NextCanon]_vars

\* (r, s) and the recovery id of a value [signature, recovery] sign returned
Returned_rs(res) ==
  SignResult_fromHex(IF inp.msgHash.type = "hex" THEN res.val[1]
                     ELSE bytesToHex(res.val[1])).val
Returned_recovery(res) == res.val[2]
HIGH_NUMBER == CURVE_n \div 2

\* C20: without canonical sign returns r, s and the recovery id as computed;
\* with canonical, 0 < s <= floor(n/2) and r is the same; a computed s above
\* n/2 is returned as n - s with a recovery id that differs in bit0 only,
\* any other s is returned with the recovery id as computed.
C20_LowSCanonical ==
  op = "signCanonical" =>
    LET q == out.qrs.val.q
        r == out.qrs.val.r
        s == out.qrs.val.s
        plain == Returned_rs(out.plain)
        canon == Returned_rs(out.canon)
        id == Returned_recovery(out.plain)
        idCanon == Returned_recovery(out.canon)
    IN /\ plain = SignResult(r, s)
       /\ id = (IF q.x = r THEN 0 ELSE 2) + (q.y % 2)
       /\ canon.r = r
       /\ 0 < canon.s /\ canon.s <= HIGH_NUMBER
       /\ IF s > HIGH_NUMBER
            THEN /\ canon.s = CURVE_n - s
                 /\ idCanon % 2 # id % 2
                 /\ idCanon \div 2 = id \div 2
            ELSE canon.s = s /\ idCanon = id
\* a computed s above n/2 was replaced, on a signature with recovery id 2 or 3
C20_Witness ==
  /\ op = "signCanonical"
  /\ out.qrs.val.s > HIGH_NUMBER
  /\ Returned_rs(out.canon).s = CURVE_n - out.qrs.val.s
  /\ Returned_recovery(out.plain) >= 2


\* ---------------------------------------------------------------------
\* SpecTrunc: a hash of one or two bytes (the scalar has one) is signed and
\* the signature verified.  out.h1n is the number getQRSrfc6979 signs,
\* out.h the number verify checks.
MaxHashByte == 3
TruncHashes ==
  {<<b>> : b \in 0..MaxHashByte} \cup {<<a, b>> : a \in 0..MaxHashByte, b \in 0..MaxHashByte}
        \cup {<<Pow2(8) - 1>>, <<Pow2(8) - 1, Pow2(8) - 1>>}
InitTrunc ==
  /\ InitLibrary
  /\ \E type \in {"hex", "bytes"}, d \in 1..MaxLibPriv, bytes \in TruncHashes :
       inp = [d |-> d, privateKey |-> PrivKeyArg(type, d), msgHash |-> HexArg(type, bytes)]
  /\ op = "init"
  /\ out = [pub |-> Undefined, sig |-> Undefined, h1n |-> Undefined,
            h |-> Undefined, ver |-> Undefined]

TruncReturn(name, field, c) ==
  /\ out' = [out EXCEPT ![field] = c.res]
  /\ pointPrecomputes' = c.cache
  /\ op' = name
  /\ UNCHANGED <<WINDOW_SIZE, inp, PRIVATE_STORE_DATA, now>>
TruncGetPublicKey ==
  /\ op = "init"
  /\ TruncReturn("getPublicKey", "pub",
       getPublicKey(inp.privateKey, FALSE, WINDOW_SIZE, pointPrecomputes))
TruncSign ==
  /\ op = "getPublicKey"
  /\ \E c \in {sign(0, inp.msgHash, inp.privateKey,
                    [recovered |-> FALSE, canonical |-> FALSE],
                    WINDOW_SIZE, pointPrecomputes)} :
       /\ out' = [out EXCEPT !.sig = c.res,
                             !.h1n = Ok(getQRSh1n(HexNumber(inp.msgHash).val))]
       /\ pointPrecomputes' = c.cache
  /\ op' = "sign"
  /\ UNCHANGED <<WINDOW_SIZE, inp, PRIVATE_STORE_DATA, now>>
TruncVerify ==
  /\ op = "sign"
  /\ IsOk(out.sig) /\ IsOk(out.pub)
  /\ \E c \in {verify([type |-> inp.msgHash.type, val |-> out.sig.val], inp.msgHash,
                      [type |-> inp.msgHash.type, val |-> out.pub.val],
                      WINDOW_SIZE, pointPrecomputes)} :
       /\ out' = [out EXCEPT !.ver = c.res, !.h = truncateHash(inp.msgHash)]
       /\ pointPrecomputes' = c.cache
  /\ op' = "verify"
  /\ UNCHANGED <<WINDOW_SIZE, inp, PRIVATE_STORE_DATA, now>>

NextTrunc == TruncGetPublicKey \/ TruncSign \/ TruncVerify
SpecTrunc == InitTrunc /\ [][NextTrunc]_vars

\* C21 as claimed: sign uses the hash truncated to the bits of the scalar,
\* the number verify uses for the same msgHash (mod n).
C21_SignTruncatesHash ==
  op = "verify" => out.h1n.val % CURVE_n = out.h.val % CURVE_n


\* ---------------------------------------------------------------------
\* SpecHighS: verify on (r, s) and on (r, n - s) with the same hash h and
\* public key Q = qd * G.  out.low and out.high are what the two calls
\* returned.
InitHighS ==
  /\ InitLibrary
  /\ \E r \in Scalars, s \in 1..MaxSigS, h \in 0..MaxVerHash, qd \in 1..MaxPubKey :
       inp = [r |-> r, s |-> s, h |-> h, qd |-> qd,
              Q |-> toAffine(multiplyUnsafe(JacobianPoint_BASE, qd).val).val]
  /\ op = "init"
  /\ out = [low |-> Undefined, high |-> Undefined]

HighSReturn(name, field, c) ==
  /\ out' = [out EXCEPT ![field] = c.res]
  /\ pointPrecomputes' = c.cache
  /\ op' = name
  /\ UNCHANGED <<WINDOW_SIZE, inp, PRIVATE_STORE_DATA, now>>
HighSVerify(s) ==
  verify([type |-> "SignResult", val |-> SignResult(inp.r, s)],
         HexArg("bytes", hexToArray(pad64(inp.h))),
         [type |-> "Point", val |-> inp.Q], WINDOW_SIZE, pointPrecomputes)
VerifyLowS ==
  /\ op = "init"
  /\ HighSReturn("verify", "low", HighSVerify(inp.s))
VerifyHighS ==
  /\ op = "verify"
  /\ HighSReturn("verifyHighS", "high", HighSVerify(CURVE_n - inp.s))

NextHighS == VerifyLowS \/ VerifyHighS
SpecHighS == InitHighS /\ [][NextHighS]_vars

\* C22: verify((r, s), h, Q) and verify((r, n - s), h, Q) end the same way:
\* both return the same boolean, or both raise an error.
C22_VerifyIgnoresHighS ==
  op = "verifyHighS" => SameOutcome(out.low, out.high)
\* both (r, s) and (r, n - s) were accepted
C22_Witness ==
  /\ op = "verifyHighS"
  /\ out.low = Ok(TRUE)
  /\ out.high = Ok(TRUE)


\* ------------------------------------------------- the wNAF loop (C23-C25)
\* A caller holds one Point object for inp.P, sets its window size through
\* utils.precompute, and the loop is run on it: by wNAF itself for every
\* half-length scalar, and by multiply for the two halves of a scalar.
MaxWnafScalar == 30
HalfScalars == 0..(Pow2(HALF_SIZE) - 1)
WnafScalars == (1..MaxWnafScalar) \cup {CURVE_n \div 2, CURVE_n - 1}
\* accumulators put in the place of fake
OtherFakes == {JacobianPoint_ZERO, JacobianPoint_BASE, JacobianPoint_double(JacobianPoint_BASE)}

InitWnaf ==
  /\ InitLibrary
  /\ inp \in [P : {Point_BASE, Point_double(Point_BASE).val}]
  /\ op = "init"
  /\ out = Undefined

WnafPrecompute ==
  /\ \E W \in WindowSizes :
       \E pc \in {utilsPrecompute(W, inp.P, "USER", WINDOW_SIZE, pointPrecomputes)} :
          /\ WINDOW_SIZE' = pc.ws
          /\ pointPrecomputes' = pc.cache
          /\ out' = [W |-> W, res |-> pc.res]
  /\ op' = "precompute"
  /\ UNCHANGED <<inp, PRIVATE_STORE_DATA, now>>

\* this.wNAF(k, this) on the caller's point
WnafRecode ==
  /\ \E k \in HalfScalars :
       \E w \in {wNAF(fromAffine(inp.P), k, "USER", WINDOW_SIZE, pointPrecomputes)} :
          /\ pointPrecomputes' = w.cache
          /\ out' = [k |-> k, W |-> wNAFWindow("USER", WINDOW_SIZE), res |-> w.res]
  /\ op' = "wNAF"
  /\ UNCHANGED <<WINDOW_SIZE, inp, PRIVATE_STORE_DATA, now>>

\* the result of multiply when the loops have ended with p1, p2 and fake is f
WnafJoin(sp, p1, p2, f, cache) ==
  multiplyNormalize(normalizeZ(<<endoJoin(sp, p1, p2), f>>), cache).res
WnafMultiplyReturn(k, sp, w1, w2, m) ==
  /\ pointPrecomputes' = m.cache
  /\ out' = [k |-> k, W |-> wNAFWindow("USER", WINDOW_SIZE),
             w1 |-> w1.res, w2 |-> w2.res, res |-> m.res,
             other |-> IF IsThrow(m.res) THEN {}
                       ELSE {WnafJoin(sp, w1.res.val.p, w2.res.val.p, f, m.cache) :
                               f \in OtherFakes},
             ref |-> toAffineResult(multiplyUnsafe(fromAffine(inp.P), k))]
\* this.multiply(k, this): the two loops it runs, and what it returns
WnafMultiply ==
  /\ \E k \in WnafScalars :
       \E sp \in {splitScalarEndo(mod(k, CURVE_n))} :
         \E w1 \in {wNAF(fromAffine(inp.P), sp.k1, "USER", WINDOW_SIZE, pointPrecomputes)} :
           \E w2 \in {IF IsThrow(w1.res) THEN w1
                      ELSE wNAF(fromAffine(inp.P), sp.k2, "USER", WINDOW_SIZE, w1.cache)} :
             \E m \in {multiply(fromAffine(inp.P), k, "USER", WINDOW_SIZE, pointPrecomputes)} :
               WnafMultiplyReturn(k, sp, w1, w2, m)
  /\ op' = "multiply"
  /\ UNCHANGED <<WINDOW_SIZE, inp, PRIVATE_STORE_DATA, now>>

NextWnaf == WnafPrecompute \/ WnafRecode \/ WnafMultiply
SpecWnaf == InitWnaf /\ [][NextWnaf]_vars

\* the loop states a step has returned
LoopStates ==
  IF op = "wNAF" /\ IsOk(out.res) THEN {out.res.val}
  ELSE IF op = "multiply" /\ IsOk(out.w1) /\ IsOk(out.w2) THEN {out.w1.val, out.w2.val}
  ELSE {}

\* C23: every window of the loop makes one addition, into p for a non-zero
\* digit and into f for a zero digit, so the two counts add up to the number
\* of windows for every scalar; and multiply returns the same point whatever
\* the fake accumulator holds.
C23_OneAdditionPerWindow ==
  /\ \A st \in LoopStates :
       /\ st.np + st.nf = Len(st.wbits)
       /\ Len(st.wbits) = Windows(out.W)
       /\ st.np = Cardinality({i \in 1..Len(st.wbits) : st.wbits[i] # 0})
       /\ st.nf = Cardinality({i \in 1..Len(st.wbits) : st.wbits[i] = 0})
  /\ (op = "multiply" /\ IsOk(out.res)) => out.other = {out.res}
C23_Witness ==
  /\ op = "multiply" /\ IsOk(out.res) /\ out.other = {out.res}
  /\ out.W = 2 /\ out.w1.val.np > 0 /\ out.w1.val.nf > 0
  /\ JacobianPoint_add(out.w1.val.f, out.w2.val.f) # JacobianPoint_ZERO


\* the digits the recoding rule gives for n over the given number of
\* windows: a W-bit digit above 2^(W-1) becomes digit - 2^W with a carry of 1
RECURSIVE RecodedDigits(_, _, _)
RecodedDigits(n, W, windows) ==
  IF windows = 0 THEN <<>>
  ELSE IF n % Pow2(W) > Pow2(W - 1)
    THEN <<(n % Pow2(W)) - Pow2(W)>> \o RecodedDigits((n \div Pow2(W)) + 1, W, windows - 1)
    ELSE <<n % Pow2(W)>> \o RecodedDigits(n \div Pow2(W), W, windows - 1)
\* sum of d_i * 2^(W * i) over the digits
RECURSIVE DigitSum(_, _)
DigitSum(ds, W) ==
  IF ds = <<>> THEN 0 ELSE ds[1] + Pow2(W) * DigitSum(Tail(ds), W)

\* C24: for a window size W that divides the width and every
\* half-length scalar k, the loop takes HALF_SIZE / W + 2 digits, each within
\* -2^(W-1) .. 2^(W-1) and equal to the digit of the recoding rule; the
\* digits weighted by 2^(W * i) add up to k, nothing of k is left after the
\* last window, and the table entry read for window i lies inside window i's
\* block of 2^(W-1) entries.
C24_RecodingExact ==
  (op = "wNAF" /\ IsOk(out.res)) =>
    /\ Len(out.res.val.wbits) = (HALF_SIZE \div out.W) + 2
    /\ \A i \in 1..Len(out.res.val.wbits) :
         /\ 0 - Pow2(out.W - 1) <= out.res.val.wbits[i]
         /\ out.res.val.wbits[i] <= Pow2(out.W - 1)
         /\ (i - 1) * Pow2(out.W - 1) <= out.res.val.index[i]
         /\ out.res.val.index[i] < i * Pow2(out.W - 1)
    /\ out.res.val.wbits = RecodedDigits(out.k, out.W, Len(out.res.val.wbits))
    /\ DigitSum(out.res.val.wbits, out.W) = out.k
    /\ out.res.val.n = 0
C24_Witness ==
  /\ op = "wNAF" /\ IsOk(out.res) /\ out.W = 2 /\ out.k = Pow2(HALF_SIZE) - 1
  /\ \E i \in 1..Len(out.res.val.wbits) : out.res.val.wbits[i] < 0
  /\ DigitSum(out.res.val.wbits, out.W) = out.k
  /\ out.res.val.n = 0

\* C25: a call on a point whose window size does not divide the width fails
\* with the window error, and with a window size that divides it the call
\* succeeds, multiply returning the product double-and-add returns.
C25_WindowSizeEnforced ==
  op \in {"wNAF", "multiply"} =>
    IF PRIME_SIZE % out.W # 0
      THEN out.res = Throw("Point#wNAF: Invalid precomputation window")
      ELSE /\ IsOk(out.res)
           /\ op = "multiply" => toAffineResult(out.res) = out.ref
C25_Witness ==
  /\ op = "multiply" /\ PRIME_SIZE % out.W # 0
  /\ WINDOW_SIZE["USER"] = out.W
  /\ out.res = Throw("Point#wNAF: Invalid precomputation window")

\* ---------------------------------------------------------------------
\* SpecStrict: SignResult.fromHex on strings that have the layout of a DER
\* signature, with every tag, every declared length and the number of bytes
\* of r and s chosen freely.
MaxDerLen == 3
DerByte(b) == <<b \div 16, b % 16>>
\* one or two content bytes (the value 2 is also the tag of an integer)
DerContents == {DerByte(a) : a \in 1..2} \cup {DerByte(a) \o DerByte(b) : a, b \in 1..2}
DerStrings ==
  {DerByte(t1) \o DerByte(length) \o DerByte(t2) \o DerByte(rLen) \o rHex
     \o DerByte(t3) \o DerByte(sLen) \o sHex :
     t1 \in {48, 49}, t2 \in {2, 3}, t3 \in {2, 3},
     length \in (2 * MaxDerLen)..(2 * MaxDerLen + 2),
     rLen \in 0..MaxDerLen, sLen \in 0..MaxDerLen,
     rHex \in DerContents, sHex \in DerContents}

InitStrict ==
  /\ InitLibrary
  /\ inp \in [hex : DerStrings]
  /\ op = "init"
  /\ out = Undefined

DerDecode ==
  /\ op = "init"
  /\ out' = [res |-> SignResult_fromHex(inp.hex)]
  /\ op' = "fromHex"
  /\ UNCHANGED <<WINDOW_SIZE, pointPrecomputes, inp, PRIVATE_STORE_DATA, now>>

NextStrict == DerDecode
SpecStrict == InitStrict /\ [][NextStrict]_vars

\* the byte at (0-based) byte offset i of a hex string
ByteAt(str, i) == hexValue(Slice(str, 2 * i, 2 * i + 2))
\* tags 30 / 02 / 02 and the total length in place
DerHeader(str) ==
  /\ Len(str) >= 8
  /\ ByteAt(str, 0) = 48 /\ ByteAt(str, 2) = 2
  /\ 2 * ByteAt(str, 1) = Len(str) - 4
\* r lies within the input and is followed by the tag 02 and a length
DerInteger_r(str) ==
  /\ 8 + 2 * ByteAt(str, 3) + 4 <= Len(str)
  /\ ByteAt(str, 4 + ByteAt(str, 3)) = 2
\* s runs exactly to the end of the input
DerInteger_s(str) ==
  8 + 2 * ByteAt(str, 3) + 4 + 2 * ByteAt(str, 5 + ByteAt(str, 3)) = Len(str)
StrictDer(str) == DerHeader(str) /\ DerInteger_r(str) /\ DerInteger_s(str)

\* C26: every input with a wrong tag byte or a declared length (total, r, s)
\* that does not match the bytes present is rejected: fromHex throws and
\* returns no signature.
C26_DerDecodingStrict ==
  (op = "fromHex" /\ ~StrictDer(inp.hex)) => IsThrow(out.res)

\* ---------------------------------------------------------------------
\* SpecDecode: Point.fromHex on every header byte up to MaxHeader, followed
\* by one coordinate byte (the compressed layout) or two (the uncompressed
\* one), given as a Uint8Array or as a hex string.
MaxHeader == 5
Bytes == 0..255
DecodeXs == (0..MaxPointX) \cup {CURVE_P - 1, CURVE_P, 255}
DecodeInputs ==
  {<<header, x>> : header \in 0..MaxHeader, x \in Bytes}
    \cup {<<header, x, y>> : header \in 0..MaxHeader, x \in DecodeXs, y \in Bytes}

InitDecode ==
  /\ InitLibrary
  /\ inp \in [type : {"bytes", "hex"}, bytes : DecodeInputs]
  /\ op = "init"
  /\ out = Undefined

DecodeFromHex ==
  /\ op = "init"
  /\ out' = [res |-> IF inp.type = "bytes" THEN Point_fromHexBytes(inp.bytes)
                     ELSE Point_fromHex(bytesToHex(inp.bytes))]
  /\ op' = "fromHex"
  /\ UNCHANGED <<WINDOW_SIZE, pointPrecomputes, inp, PRIVATE_STORE_DATA, now>>

NextDecode == DecodeFromHex
SpecDecode == InitDecode /\ [][NextDecode]_vars

\* x^3 + 7 has a square root in the field
HasRoot(x) == \E y \in 0..(CURVE_P - 1) : (y * y) % CURVE_P = (x * x * x + CURVE_b) % CURVE_P
\* 1 <= x, y <= P - 1 and y^2 = x^3 + 7
IsValidPoint(x, y) ==
  /\ x \in 1..(CURVE_P - 1) /\ y \in 1..(CURVE_P - 1)
  /\ (y * y) % CURVE_P = (x * x * x + CURVE_b) % CURVE_P
Compressed == Len(inp.bytes) = 1 + PAD_LEN \div 2 /\ inp.bytes[1] \in {2, 3}
Uncompressed == Len(inp.bytes) = 1 + PAD_LEN /\ inp.bytes[1] = 4

\* C27: fromHex fails for every header byte other than 02, 03, 04, for every
\* compressed x with no square root of x^3 + 7 and for every uncompressed
\* (x, y) that is zero, out of 1..P-1 or off the curve; and a point it
\* returns is in range and on the curve.
C27_PointDecodingValidates ==
  op = "fromHex" =>
    /\ inp.bytes[1] \notin {2, 3, 4} =>
         out.res = Throw("Point.fromHex: received invalid point")
    /\ (Compressed /\ ~HasRoot(inp.bytes[2])) =>
         out.res = Throw("Point is not on elliptic curve")
    /\ (Uncompressed /\ ~IsValidPoint(inp.bytes[2], inp.bytes[3])) =>
         out.res = Throw("Point is not on elliptic curve")
    /\ IsOk(out.res) => IsValidPoint(out.res.val.x, out.res.val.y)
C27_Witness ==
  /\ op = "fromHex" /\ Compressed /\ inp.bytes[2] \in 1..(CURVE_P - 1)
  /\ ~HasRoot(inp.bytes[2])
  /\ out.res = Throw("Point is not on elliptic curve")


\* ---------------------------------------------------------------------
\* SpecConc: two calls of the library run on one event loop.  getPublicKey,
\* verify and recoverPublicKey run to their end in one step; sign is
\* suspended at each await of utils.hmacSha256, and the only steps of it
\* that touch pointPrecomputes are the candidate tests of step H3, so it is
\* one step for steps B to G and one step per iteration of the loop.
\* Call 1 is a sign, call 2 any of the four functions.
\* inp[c] = [f, d, h] is the function called, the private key and the
\* message hash its arguments are made of; op[c] is the position of call c
\* and out[c] its local variables k, v, i and the value it returned.
MaxConcHash == 3
Calls == {1, 2}
Functions == {"sign", "getPublicKey", "verify", "recoverPublicKey"}
NoTables == [o \in Objects |-> <<>>]
LoadedWindows == [o \in Objects |-> IF o = "BASE" THEN DEFAULT_WINDOW ELSE 0]
ConcOpts == [recovered |-> TRUE, canonical |-> TRUE]
ConcHash(h) == HexArg("hex", hexToArray(pad64(h)))

\* the arguments of verify and recoverPublicKey: a signature of h by d and
\* the public key of d, as the library returns them on its own
SignatureOf(d, h) ==
  sign(0, ConcHash(h), PrivKeyArg("bigint", d), ConcOpts, LoadedWindows, NoTables).res.val
PublicKeyOf(d) ==
  getPublicKey(PrivKeyArg("hex", d), FALSE, LoadedWindows, NoTables).res.val

\* the call with arguments a, run from the tables and window sizes given
Call(a, ws, cache) ==
  IF a.f = "sign"
    THEN sign(0, ConcHash(a.h), PrivKeyArg("bigint", a.d), ConcOpts, ws, cache)
  ELSE IF a.f = "getPublicKey"
    THEN getPublicKey(PrivKeyArg("hex", a.d), FALSE, ws, cache)
  ELSE IF a.f = "verify"
    THEN verify([type |-> "hex", val |-> SignatureOf(a.d, a.h)[1]], ConcHash(a.h),
                [type |-> "hex", val |-> PublicKeyOf(a.d)], ws, cache)
  ELSE recoverPublicKey(ConcHash(a.h), [type |-> "hex", val |-> SignatureOf(a.d, a.h)[1]],
                        SignatureOf(a.d, a.h)[2], ws, cache)

InitConc ==
  /\ InitLibrary
  /\ inp \in [Calls -> [f : Functions, d : 1..MaxLibPriv, h : 1..MaxConcHash]]
  /\ inp[1].f = "sign"
  /\ op = [c \in Calls |-> "init"]
  /\ out = [c \in Calls |-> [k |-> <<>>, v |-> <<>>, i |-> 0, empty |-> FALSE,
                             hit |-> FALSE, res |-> Undefined]]

\* a synchronous call from its first statement to its return
ConcReturn(c, r) ==
  /\ pointPrecomputes' = r.cache
  /\ out' = [out EXCEPT ![c].res = r.res,
                        ![c].hit = pointPrecomputes["BASE"] # <<>>]
  /\ op' = [op EXCEPT ![c] = "returned"]
  /\ UNCHANGED <<WINDOW_SIZE, inp, PRIVATE_STORE_DATA, now>>
ConcCall ==
  \E c \in Calls :
    /\ op[c] = "init" /\ inp[c].f # "sign"
    /\ \E r \in {Call(inp[c], WINDOW_SIZE, pointPrecomputes)} : ConcReturn(c, r)

\* sign up to the await of step G: k and v after steps D, E, F and G
ConcStepsDG(x, h1, v0, kD) ==
  LET vE == hmacSha256(0, kD, v0)
      kF == hmacSha256(0, kD, vE \o <<1>> \o x \o h1)
  IN [k |-> kF, v |-> hmacSha256(0, kF, vE)]
ConcStepsBG(x, h1, v0, k0) ==
  ConcStepsDG(x, h1, v0, hmacSha256(0, k0, v0 \o <<0>> \o x \o h1))
ConcSignBegin ==
  \E c \in Calls :
    /\ op[c] = "init" /\ inp[c].f = "sign"
    /\ \E kv \in {ConcStepsBG(hexToArray(pad64(inp[c].d)), hexToArray(pad64(inp[c].h)),
                              [i \in 1..(PRIME_SIZE \div 8) |-> 1],
                              [i \in 1..(PRIME_SIZE \div 8) |-> 0])} :
         out' = [out EXCEPT ![c].k = kv.k, ![c].v = kv.v,
                            ![c].empty = pointPrecomputes["BASE"] = <<>>]
    /\ op' = [op EXCEPT ![c] = "loop"]
    /\ UNCHANGED <<WINDOW_SIZE, pointPrecomputes, inp, PRIVATE_STORE_DATA, now>>

\* one iteration of step H3: v = hmac(k, v), the candidate test, and either
\* the rest of sign or the two digests that advance k and v
ConcSignNext(c, v, qrs) ==
  /\ pointPrecomputes' = qrs.cache
  /\ IF qrs.res = Undefined
       THEN /\ \E k \in {hmacSha256(0, out[c].k, v \o <<0>>)} :
                 out' = [out EXCEPT ![c].k = k, ![c].v = hmacSha256(0, k, v),
                                    ![c].i = @ + 1,
                                    ![c].hit = pointPrecomputes["BASE"] # <<>>]
            /\ op' = op
       ELSE /\ out' = [out EXCEPT ![c].res = signResult(ConcHash(inp[c].h), ConcOpts, qrs).res,
                                  ![c].hit = pointPrecomputes["BASE"] # <<>>]
            /\ op' = [op EXCEPT ![c] = "returned"]
  /\ UNCHANGED <<WINDOW_SIZE, inp, PRIVATE_STORE_DATA, now>>
ConcSignIter ==
  \E c \in Calls :
    /\ op[c] = "loop"
    /\ IF out[c].i >= MAX_TRIES
         THEN ConcSignNext(c, out[c].v,
                [res |-> Throw("secp256k1: Tried 1,000 k values for sign(), all were invalid"),
                 cache |-> pointPrecomputes])
         ELSE \E v \in {hmacSha256(0, out[c].k, out[c].v)} :
                ConcSignNext(c, v,
                  getQRSCandidate([seed |-> 0, priv |-> inp[c].d, ws |-> WINDOW_SIZE,
                                   h1n |-> getQRSh1n(inp[c].h)],
                                  bytesToNumber(v).val, pointPrecomputes))

NextConc == ConcCall \/ ConcSignBegin \/ ConcSignIter
SpecConc == InitConc /\ [][NextConc]_vars

\* C28: under every interleaving, a table in the cache is the table
\* precomputeWindow and normalizeZ build for that point and its window size,
\* and a call that has returned has returned what it returns when it runs
\* alone from the state the library is loaded in.
C28_InterleavingsAgree ==
  /\ \A o \in Objects :
       pointPrecomputes[o] # <<>> =>
         /\ o = "BASE"
         /\ pointPrecomputes[o] =
              normalizeZ(precomputeWindow(JacobianPoint_BASE, WINDOW_SIZE[o])).val
  /\ \A c \in Calls :
       op[c] = "returned" => out[c].res = Call(inp[c], LoadedWindows, NoTables).res
\* a sign that began when no table was cached, was suspended, and found the
\* table another call had stored in the meantime
C28_Witness ==
  /\ op[1] = "returned" /\ inp[1].f = "sign" /\ IsOk(out[1].res)
  /\ out[1].empty /\ out[1].hit /\ out[1].i > 0
  /\ op[2] = "returned" /\ inp[2].f = "verify" /\ out[2].res = Ok(TRUE)
  /\ out[1].res = Call(inp[1], LoadedWindows, NoTables).res


\* ---------------------------------------------------------------------
\* SpecRace: two wallet_putString requests for the address of wallet 2 are
\* handled on one event loop.  handlePutString is suspended at its awaits:
\* once it has parsed and authorized the request, once getData has read the
\* store, and it then compares, reads the clock and calls setData.
\* inp[c] is the request of call c, op[c] its position, out[c] its locals
\* request and currentData and the response it returned.
RacePuts ==
  {PutRequest(Str(computeAddress(2)), Str(namespace), Str(BigInt_toString(t)), Str(d),
     SignatureString([kind |-> "signed", signer |-> w,
       digest |-> hash256(putMessage([namespace |-> namespace, timestamp |-> t,
                                      data |-> d]))])) :
     t \in Counters, d \in DataStrings, w \in Wallets}

InitRace ==
  /\ InitLibrary
  /\ inp \in [Calls -> RacePuts]
  /\ op = [c \in Calls |-> "init"]
  /\ out = [c \in Calls |-> [request |-> Undefined, currentData |-> Undefined,
                             response |-> Undefined]]

\* parseWriteRequest, the namespace test, hash256 and isAuthorized
RaceAuthorize ==
  \E c \in Calls :
    /\ op[c] = "init"
    /\ \E request \in {parseWriteRequest(inp[c])} :
         IF \/ IsThrow(request)
            \/ request.val.namespace # namespace
            \/ ~isAuthorized(request.val.address, hash256(putMessage(request.val)),
                             request.val.signature)
           THEN /\ out' = [out EXCEPT ![c].response =
                             handlePutString(inp[c], PRIVATE_STORE_DATA, now).response]
                /\ op' = [op EXCEPT ![c] = "returned"]
           ELSE /\ out' = [out EXCEPT ![c].request = request.val]
                /\ op' = [op EXCEPT ![c] = "authorized"]
    /\ UNCHANGED <<WINDOW_SIZE, pointPrecomputes, PRIVATE_STORE_DATA, now, inp>>

\* currentData = await getData(request.address.toLowerCase())
RaceGetData ==
  \E c \in Calls :
    /\ op[c] = "authorized"
    /\ out' = [out EXCEPT ![c].currentData =
                 getData(PRIVATE_STORE_DATA, toLowerCase(out[c].request.address))]
    /\ op' = [op EXCEPT ![c] = "read"]
    /\ UNCHANGED <<WINDOW_SIZE, pointPrecomputes, PRIVATE_STORE_DATA, now, inp>>

\* the two timestamp tests and setData
RaceSetData ==
  \E c \in Calls :
    /\ op[c] = "read"
    /\ \E r \in {handlePutString_store(inp[c], out[c].request, out[c].currentData,
                                       PRIVATE_STORE_DATA, now)} :
         /\ PRIVATE_STORE_DATA' = r.store
         /\ out' = [out EXCEPT ![c].response = r.response]
    /\ op' = [op EXCEPT ![c] = "returned"]
    /\ UNCHANGED <<WINDOW_SIZE, pointPrecomputes, now, inp>>

RaceTick ==
  /\ now < MaxClock
  /\ now' = now + 1
  /\ UNCHANGED <<WINDOW_SIZE, pointPrecomputes, PRIVATE_STORE_DATA, inp, op, out>>

NextRace == RaceAuthorize \/ RaceGetData \/ RaceSetData \/ RaceTick
SpecRace == InitRace /\ [][NextRace]_vars

\* C29: under every interleaving the timestamp stored for the address never
\* decreases and newer data is never replaced by older: once a put has
\* returned true, the store holds its timestamp or a later one.
C29_ConcurrentPutsKeepNewest ==
  \A c \in Calls :
    (op[c] = "returned" /\ out[c].response.result = Value(TRUE)) =>
      StoredTimestamp(PRIVATE_STORE_DATA, toLowerCase(PutAddress(inp[c])))
        >= PutTimestamp(inp[c])


\* a request whose second parameter is a string other than the namespace
OtherNamespace(jsonRequest) ==
  /\ jsonRequest.method \in {"wallet_putString", "wallet_getString"}
  /\ Len(jsonRequest.params) >= 2
  /\ jsonRequest.params[2].type = "string"
  /\ jsonRequest.params[2].val # namespace
\* the response has result null and an error
Rejected(response) == response.result = Null /\ response.error # Undefined

\* C30: a put whose timestamp is later than the server's clock is answered
\* with an error and leaves the store as it was, so a timestamp is at most
\* the clock when it is written (and ever after); a put or get for another
\* namespace is answered with an error that does not depend on the store,
\* and leaves the store as it was.
C30_NoFutureNoOtherNamespace ==
  /\ [](\A key \in DOMAIN PRIVATE_STORE_DATA :
          StoredTimestamp(PRIVATE_STORE_DATA, key) <= now)
  /\ [][Handled =>
          /\ (inp' \in ParsedPuts /\ PutTimestamp(inp') > now) =>
               Rejected(out') /\ PRIVATE_STORE_DATA' = PRIVATE_STORE_DATA
          /\ \A key \in DOMAIN PRIVATE_STORE_DATA' :
               Written(PRIVATE_STORE_DATA, PRIVATE_STORE_DATA', key) =>
                 StoredTimestamp(PRIVATE_STORE_DATA', key) <= now
          /\ OtherNamespace(inp') =>
               /\ Rejected(out') /\ PRIVATE_STORE_DATA' = PRIVATE_STORE_DATA
               /\ out' = handleRPC(inp', <<>>, now).response]_vars
\* the owner's put with a timestamp ahead of the clock was refused
C30_Witness ==
  /\ op = "wallet_putString" /\ inp \in WellFormedPuts /\ SignedByOwner(inp)
  /\ PutTimestamp(inp) > now
  /\ PRIVATE_STORE_DATA = <<>>
  /\ out.result = Null /\ out.error = ErrorOf("cannot use future timestamp")

====
